---------------------------- MODULE Spec2Model ----------------------------
(***************************************************************************)
(* A model of the StackSpot agent client: the in-memory chat session       *)
(* (src/src/models/chat_session.py), the REST client                       *)
(* (src/src/utils/api_client.py) and the agent built on it                 *)
(* (src/src/agents/stackspot_agent.py).                                    *)
(*                                                                         *)
(* Python objects that are shared by reference (the session's message      *)
(* list, the list get_context() returns) live in a small heap, so that     *)
(* aliasing between them is something the model can express.               *)
(***************************************************************************)
EXTENDS Integers, Sequences, FiniteSets, TLC

VARIABLES
    session,     \* the ChatSession object: conversation_id, messages (a heap reference), metadata
    heap,        \* the list objects: heap.msgs is the session's list, heap.ctx the list last returned
    returned,    \* the reference the caller holds from its last get_context() call, or "none"
    now,         \* the clock datetime.now reads
    calls,       \* history: the (role, content) of every add_message call since the last clear()
    cleared,     \* history: clear() has been called at least once
    lastOp,      \* history: the operation that produced the current state
    client,      \* the StackSpotAPIClient object under direct use, or None
    agent,       \* the StackSpotAgent object, or None
    sent,        \* the network: every HTTP request sent so far, in order
    mark,        \* history: Len(sent) when the last invocation began
    born,        \* history: Len(sent) when the construction of the agent began
    call,        \* history: the last invocation, with its arguments
    lastReply,   \* history: the server's answer to the last invocation's request
    result,      \* what the last invocation ended in: a value or an exception
    disk,        \* the file system: the paths of the files that exist
    opened,      \* history: the file objects the last invocation opened, as it left them
    front        \* the front-end: the message handlers of the web application, or the
                 \* console program and the prompt it stands at

sessionVars == <<session, heap, returned, now, calls, cleared, lastOp>>

clientVars == <<client, agent, sent, mark, born, call, lastReply, result, disk, opened, front>>

vars == <<session, heap, returned, now, calls, cleared, lastOp,
          client, agent, sent, mark, born, call, lastReply, result, disk, opened, front>>

----------------------------------------------------------------------------
(* Bounds and input sets *)

\* add_message calls in one behaviour (each reads the clock once)
MaxClock == 3

Roles == {"user", "assistant"}

Contents == {"hi", "hello"}

ConversationIds == {"uuid-1", "uuid-2"}

\* dicts are functions from their keys; the empty dict is the empty function
EmptyDict == <<>>

Metadatas == {EmptyDict, [topic |-> "billing"]}

----------------------------------------------------------------------------
(* Python values.  A value whose type the code inspects (an Optional           *)
(* argument, a JSON value, a payload field) carries its type.                  *)

PyNone == [py |-> "None"]

PyStr(s) == [py |-> "str", v |-> s]

PyBool(b) == [py |-> "bool", v |-> b]

\* a list is its sequence of elements
PyList(l) == [py |-> "list", v |-> l]

\* a dict keeps its keys in insertion order: keys is that order, v the mapping
PyDict(keys, d) == [py |-> "dict", keys |-> keys, v |-> d]

EmptyPyDict == PyDict(<<>>, <<>>)

\* bool(x), the test behind `if x`, `not x` and `x or y`
truthy(x) ==
    CASE x.py = "None" -> FALSE
      [] x.py = "bool" -> x.v
      [] x.py = "str"  -> x.v # ""
      [] x.py = "list" -> Len(x.v) > 0
      [] x.py = "dict"  -> Len(x.keys) > 0
      [] x.py = "int"   -> x.v # 0
      [] x.py = "float" -> x.v \notin {"0.0", "-0.0"}
      [] OTHER          -> TRUE

\* x or y
py_or(x, y) == IF truthy(x) THEN x ELSE y

RECURSIVE py_repr(_), py_join_repr(_), py_join_items(_, _)

\* ", ".join(repr(e) for e in l)
py_join_repr(l) ==
    IF Len(l) = 0 THEN ""
    ELSE IF Len(l) = 1 THEN py_repr(l[1])
    ELSE py_repr(l[1]) \o ", " \o py_join_repr(Tail(l))

\* ", ".join(repr(k) + ": " + repr(d[k]) for k in keys)
py_join_items(keys, d) ==
    IF Len(keys) = 0 THEN ""
    ELSE LET item == "'" \o keys[1] \o "': " \o py_repr(d[keys[1]]) IN
         IF Len(keys) = 1 THEN item
         ELSE item \o ", " \o py_join_items(Tail(keys), d)

\* repr(x), for text without quotes or escapes in it
py_repr(x) ==
    CASE x.py = "None" -> "None"
      [] x.py = "bool" -> IF x.v THEN "True" ELSE "False"
      [] x.py = "str"  -> "'" \o x.v \o "'"
      [] x.py = "list" -> "[" \o py_join_repr(x.v) \o "]"
      [] x.py = "dict" -> "{" \o py_join_items(x.keys, x.v) \o "}"
      [] x.py = "int"   -> ToString(x.v)
      [] x.py = "float" -> x.v

\* str(x), also what an f-string puts in place of {x}
py_str(x) == IF x.py = "str" THEN x.v ELSE py_repr(x)

\* d.get(key): None when the key is missing
dict_get(d, key) == IF key \in DOMAIN d.v THEN d.v[key] ELSE PyNone

\* a mapping without the key k (dict.pop(k, None) for its effect on the dict)
dict_pop(d, k) == [q \in DOMAIN d \ {k} |-> d[q]]

----------------------------------------------------------------------------
(* Text the code takes apart (URLs, endpoints, agent names) is a sequence of   *)
(* pieces: each delimiter : / ? # ; & = is a piece of its own, and a run of    *)
(* other characters (lower-case letters, digits, "-", ".", starting with a     *)
(* letter) is one piece.  The code looks at such text only at its delimiters,  *)
(* so the string operations below act on pieces as they act on characters.     *)

RECURSIVE lstrip(_, _), rstrip(_, _), join(_, _)

lstrip(s, c) == IF Len(s) > 0 /\ s[1] = c THEN lstrip(Tail(s), c) ELSE s

rstrip(s, c) ==
    IF Len(s) > 0 /\ s[Len(s)] = c THEN rstrip(SubSeq(s, 1, Len(s) - 1), c) ELSE s

\* s.strip(c)
strip(s, c) == rstrip(lstrip(s, c), c)

\* sep.join(parts)
join(parts, sep) ==
    IF Len(parts) = 0 THEN <<>>
    ELSE IF Len(parts) = 1 THEN parts[1]
    ELSE parts[1] \o sep \o join(Tail(parts), sep)

RECURSIVE find(_, _, _)

\* the least index i >= from with s[i] in chars, or Len(s) + 1 when there is none
find(s, chars, from) ==
    IF from > Len(s) THEN Len(s) + 1
    ELSE IF s[from] \in chars THEN from
    ELSE find(s, chars, from + 1)

\* the characters that separate the parts of a URL
Delimiters == {":", "/", "?", "#", ";", "&", "="}

----------------------------------------------------------------------------
(* src/src/utils/url_utils.py *)

\* urllib.parse.urlparse for lower-case URLs without ";" (so params is empty):
\* the scheme up to the first ":", the netloc after "//" up to the next "/",
\* "?" or "#", then the fragment after the first "#" and the query after the
\* first "?" of what remains
parse_url(url) ==
    LET colon     == find(url, {":"}, 1)
        hasScheme == /\ colon <= Len(url)
                     /\ colon > 1
                     /\ \A i \in 1..(colon - 1) : url[i] \notin Delimiters
        scheme    == IF hasScheme THEN SubSeq(url, 1, colon - 1) ELSE <<>>
        rest      == IF hasScheme THEN SubSeq(url, colon + 1, Len(url)) ELSE url
        hasNetloc == Len(rest) >= 2 /\ rest[1] = "/" /\ rest[2] = "/"
        netEnd    == find(rest, {"/", "?", "#"}, 3)
        netloc    == IF hasNetloc THEN SubSeq(rest, 3, netEnd - 1) ELSE <<>>
        tail      == IF hasNetloc THEN SubSeq(rest, netEnd, Len(rest)) ELSE rest
        hash      == find(tail, {"#"}, 1)
        fragment  == SubSeq(tail, hash + 1, Len(tail))
        noFrag    == SubSeq(tail, 1, hash - 1)
        qmark     == find(noFrag, {"?"}, 1)
        query     == SubSeq(noFrag, qmark + 1, Len(noFrag))
        path      == SubSeq(noFrag, 1, qmark - 1)
    IN [scheme |-> scheme, netloc |-> netloc, path |-> path, params |-> <<>>,
        query |-> query, fragment |-> fragment]

\* urllib.parse.uses_netloc: the schemes that are written with "//"
uses_netloc ==
    {<<"ftp">>, <<"http">>, <<"gopher">>, <<"nntp">>, <<"telnet">>, <<"imap">>,
     <<"wais">>, <<"file">>, <<"mms">>, <<"https">>, <<"shttp">>, <<"snews">>,
     <<"prospero">>, <<"rtsp">>, <<"rtsps">>, <<"rtspu">>, <<"rsync">>, <<"svn">>,
     <<"svn", "+", "ssh">>, <<"sftp">>, <<"nfs">>, <<"git">>, <<"git", "+", "ssh">>,
     <<"ws">>, <<"wss">>}

\* urllib.parse.urlunparse of (scheme, netloc, path, params, query, fragment):
\* "//" is written in front of a netloc, and also for a scheme of uses_netloc
\* without one, unless the path begins with "//" itself
urlunparse(scheme, netloc, path, params, query, fragment) ==
    LET url0 == IF Len(params) > 0 THEN path \o <<";">> \o params ELSE path
        url1 == IF \/ Len(netloc) > 0
                   \/ /\ Len(scheme) > 0
                      /\ scheme \in uses_netloc
                      /\ ~(Len(url0) >= 2 /\ url0[1] = "/" /\ url0[2] = "/")
                THEN <<"/", "/">> \o netloc \o
                     (IF Len(url0) > 0 /\ url0[1] # "/" THEN <<"/">> ELSE <<>>) \o url0
                ELSE url0
        url2 == IF Len(scheme) > 0 THEN scheme \o <<":">> \o url1 ELSE url1
        url3 == IF Len(query) > 0 THEN url2 \o <<"?">> \o query ELSE url2
    IN IF Len(fragment) > 0 THEN url3 \o <<"#">> \o fragment ELSE url3

\* a variant that strips the leading slashes only
clean_url_parts_lstrip(parts) ==
    LET kept == SelectSeq(parts, LAMBDA part : Len(part) > 0) IN
    [i \in 1..Len(kept) |-> lstrip(kept[i], "/")]

\* [str(part).strip("/") for part in parts if part]
clean_url_parts(parts) ==
    LET kept == SelectSeq(parts, LAMBDA part : Len(part) > 0) IN
    [i \in 1..Len(kept) |-> strip(kept[i], "/")]

\* urllib.parse.quote_plus of a text: a space becomes "+", a delimiter its
\* percent-encoding, and the other pieces (letters, digits, "-", ".") stay
quote_plus(s) ==
    [i \in 1..Len(s) |->
        CASE s[i] = " " -> "+"
          [] s[i] = ":" -> "%3A"
          [] s[i] = "/" -> "%2F"
          [] s[i] = "?" -> "%3F"
          [] s[i] = "#" -> "%23"
          [] s[i] = ";" -> "%3B"
          [] s[i] = "&" -> "%26"
          [] s[i] = "=" -> "%3D"
          [] OTHER      -> s[i]]

\* urllib.parse.urlencode of a mapping from names to texts, in the order of
\* its keys: name=value pairs joined by "&", each side quoted
urlencode(query) ==
    join([i \in 1..Len(query.keys) |->
             quote_plus(<<query.keys[i]>>) \o <<"=">> \o quote_plus(query.v[query.keys[i]].v)],
         <<"&">>)

\* build_url(base_url, *parts, query=query); query is None or a mapping
build_url(base_url, parts, query) ==
    LET parsed       == parse_url(base_url)
        base_path    == strip(parsed.path, "/")
        clean_parts  == IF Len(parsed.path) > 0 /\ Len(base_path) > 0
                        THEN <<base_path>> \o clean_url_parts(parts)
                        ELSE clean_url_parts(parts)
        path         == join(clean_parts, <<"/">>)
        query_string == IF truthy(query) THEN urlencode(query) ELSE <<>>
    IN urlunparse(parsed.scheme, parsed.netloc, <<"/">> \o path, parsed.params,
                  query_string, parsed.fragment)

----------------------------------------------------------------------------
(* HTTP as the client sees it: one request out, one reply from the server    *)
(* (or none, when the transport fails)                                       *)

\* what an invocation ends in: a value returned or an exception raised
Return(v) == [ok |-> TRUE, value |-> v]

Raise(e) == [ok |-> FALSE, error |-> e]

ValueError(message) == [type |-> "ValueError", message |-> message]

\* requests.exceptions.HTTPError keeps the response, and so its status code
HTTPError(status_code) == [type |-> "HTTPError", status_code |-> status_code]

\* requests.exceptions.ConnectionError (DNS, TLS, refused, timeout): no response
ConnectionError == [type |-> "ConnectionError"]

\* response.json() on a body that is not JSON
JSONDecodeError == [type |-> "JSONDecodeError"]

\* token_data.get on a JSON value that is no object
AttributeError == [type |-> "AttributeError"]

TransportFailure == [received |-> FALSE]

\* the invocation sent no request
NoReply == [received |-> FALSE, asked |-> FALSE]

Response(status_code, body) ==
    [received |-> TRUE, status_code |-> status_code, body |-> body]

NotJson == [is_json |-> FALSE]

Json(v) == [is_json |-> TRUE, json |-> v]

\* response.raise_for_status(): requests raises for 4xx and 5xx only
raises_for_status(response) ==
    response.status_code >= 400 /\ response.status_code < 600

\* the tail every REST method shares, after the request went out:
\*   response = requests.<method>(...)   raises when the transport fails
\*   response.raise_for_status()
\*   return response.json()
\* the except clause logs and re-raises, so the exception leaves unchanged
receive(reply) ==
    IF ~reply.received THEN Raise(ConnectionError)
    ELSE IF raises_for_status(reply) THEN Raise(HTTPError(reply.status_code))
    ELSE IF ~reply.body.is_json THEN Raise(JSONDecodeError)
    ELSE Return(reply.body.json)

----------------------------------------------------------------------------
(* src/src/utils/api_client.py *)

DefaultBaseUrl == <<"https", ":", "/", "/", "genai-inference-app.stackspot.com", "/", "v1">>

DefaultAuthUrl == <<"https", ":", "/", "/", "idm.stackspot.com">>

\* a variant without the realm check
StackSpotAPIClient_no_realm_check(base_url, auth_url, realm) ==
    Return([py       |-> "StackSpotAPIClient",
            base_url |-> py_or(base_url, PyStr(DefaultBaseUrl)).v,
            auth_url |-> py_or(auth_url, PyStr(DefaultAuthUrl)).v,
            realm    |-> py_str(realm)])

\* StackSpotAPIClient(base_url, auth_url, realm): no request is made here
StackSpotAPIClient(base_url, auth_url, realm) ==
    IF ~truthy(realm)
    THEN Raise(ValueError("Account realm is required for authentication"))
    ELSE Return([py       |-> "StackSpotAPIClient",
                 base_url |-> py_or(base_url, PyStr(DefaultBaseUrl)).v,
                 auth_url |-> py_or(auth_url, PyStr(DefaultAuthUrl)).v,
                 realm    |-> realm.v])

\* a variant that names the scheme "Token"
create_auth_header_token_scheme(access_token) ==
    ("Authorization" :> ("Token " \o py_str(access_token)))
        @@ ("Content-Type" :> "application/json")

_create_auth_header(access_token) ==
    ("Authorization" :> ("Bearer " \o py_str(access_token)))
        @@ ("Content-Type" :> "application/json")

\* the form request of get_oauth_token
token_request(url, client_id, client_secret) ==
    [method  |-> "POST",
     url     |-> url,
     headers |-> ("Content-Type" :> "application/x-www-form-urlencoded"),
     body    |-> [kind |-> "form",
                  data |-> PyDict(<<"client_id", "grant_type", "client_secret">>,
                                  [client_id     |-> PyStr(client_id),
                                   grant_type    |-> PyStr("client_credentials"),
                                   client_secret |-> PyStr(client_secret)])]]

\* get_oauth_token(url, client_id, client_secret), the server answering `reply`:
\* the requests sent and what the call ends in
get_oauth_token(self, url, client_id, client_secret, reply) ==
    [self    |-> self,
     sent    |-> <<token_request(url, client_id, client_secret)>>,
     outcome |->
        IF ~reply.received THEN Raise(ConnectionError)
        ELSE IF raises_for_status(reply) THEN Raise(HTTPError(reply.status_code))
        ELSE IF ~reply.body.is_json THEN Raise(JSONDecodeError)
        ELSE IF reply.body.json.py # "dict" THEN Raise(AttributeError)
        ELSE LET access_token == dict_get(reply.body.json, "access_token") IN
             IF ~truthy(access_token)
             THEN Raise(ValueError("No access token in response"))
             ELSE Return(access_token)]

\* a variant that keeps the URL it built as the client's base URL
get_moves_base_url(self, endpoint, access_token, reply) ==
    [self    |-> [self EXCEPT !.base_url = build_url(self.base_url, <<endpoint>>, PyNone)],
     sent    |-> <<[method  |-> "GET",
                    url     |-> build_url(self.base_url, <<endpoint>>, PyNone),
                    headers |-> _create_auth_header(access_token),
                    body    |-> [kind |-> "none"]]>>,
     outcome |-> receive(reply)]

get(self, endpoint, access_token, reply) ==
    [self    |-> self,
     sent    |-> <<[method  |-> "GET",
                    url     |-> build_url(self.base_url, <<endpoint>>, PyNone),
                    headers |-> _create_auth_header(access_token),
                    body    |-> [kind |-> "none"]]>>,
     outcome |-> receive(reply)]

\* a variant that leaves the fields that are lists out of the form
form_fields_without_lists(data) ==
    LET kept == SelectSeq(data.keys, LAMBDA k : data.v[k].py # "list") IN
    PyDict(kept, [k \in {kept[i] : i \in 1..Len(kept)} |-> PyStr(py_str(data.v[k]))])

\* {k: str(v) for k, v in data.items()}
form_fields(data) ==
    PyDict(data.keys, [k \in DOMAIN data.v |-> PyStr(py_str(data.v[k]))])

\* a variant that keeps the JSON Content-Type on a multipart request
post_keeps_content_type(self, endpoint, data, access_token, files, reply) ==
    [self    |-> self,
     sent    |-> <<[method  |-> "POST",
                    url     |-> build_url(self.base_url, <<endpoint>>, PyNone),
                    headers |-> _create_auth_header(access_token),
                    body    |-> IF truthy(files)
                                THEN [kind  |-> "multipart",
                                      data  |-> form_fields(data),
                                      files |-> files]
                                ELSE [kind |-> "json", json |-> data]]>>,
     outcome |-> receive(reply)]

\* a variant that sends the request a second time when the first attempt fails
post_with_retry(self, endpoint, data, access_token, files, reply) ==
    LET request == [method  |-> "POST",
                    url     |-> build_url(self.base_url, <<endpoint>>, PyNone),
                    headers |-> IF truthy(files)
                                THEN dict_pop(_create_auth_header(access_token),
                                              "Content-Type")
                                ELSE _create_auth_header(access_token),
                    body    |-> IF truthy(files)
                                THEN [kind  |-> "multipart",
                                      data  |-> form_fields(data),
                                      files |-> files]
                                ELSE [kind |-> "json", json |-> data]]
    IN [self    |-> self,
        sent    |-> IF receive(reply).ok THEN <<request>> ELSE <<request, request>>,
        outcome |-> receive(reply)]

post(self, endpoint, data, access_token, files, reply) ==
    [self    |-> self,
     sent    |-> <<[method  |-> "POST",
                    url     |-> build_url(self.base_url, <<endpoint>>, PyNone),
                    headers |-> IF truthy(files)
                                THEN dict_pop(_create_auth_header(access_token),
                                              "Content-Type")
                                ELSE _create_auth_header(access_token),
                    body    |-> IF truthy(files)
                                THEN [kind  |-> "multipart",
                                      data  |-> form_fields(data),
                                      files |-> files]
                                ELSE [kind |-> "json", json |-> data]]>>,
     outcome |-> receive(reply)]

put(self, endpoint, data, access_token, reply) ==
    [self    |-> self,
     sent    |-> <<[method  |-> "PUT",
                    url     |-> build_url(self.base_url, <<endpoint>>, PyNone),
                    headers |-> _create_auth_header(access_token),
                    body    |-> [kind |-> "json", json |-> data]]>>,
     outcome |-> receive(reply)]

delete(self, endpoint, access_token, reply) ==
    [self    |-> self,
     sent    |-> <<[method  |-> "DELETE",
                    url     |-> build_url(self.base_url, <<endpoint>>, PyNone),
                    headers |-> _create_auth_header(access_token),
                    body    |-> [kind |-> "none"]]>>,
     outcome |-> receive(reply)]

----------------------------------------------------------------------------
(* src/src/models/llm.py, src/src/models/prompt.py *)

\* a float, by its decimal text
PyFloat(text) == [py |-> "float", v |-> text]

\* LLMConfig(provider, model) with the dataclass defaults of the other fields
LLMConfig(provider, model) ==
    [provider          |-> provider,
     model             |-> model,
     temperature       |-> PyFloat("0.7"),
     top_p             |-> PyFloat("1.0"),
     frequency_penalty |-> PyFloat("0.1"),
     presence_penalty  |-> PyFloat("0.0")]

\* a variant that gives the provider and the model only
LLMConfig_to_dict_two_keys(self) ==
    PyDict(<<"provider", "model">>,
           [provider |-> PyStr(self.provider), model |-> PyStr(self.model)])

\* self.to_dict() of an LLMConfig
LLMConfig_to_dict(self) ==
    PyDict(<<"provider", "model", "temperature", "top_p", "frequency_penalty",
             "presence_penalty">>,
           [provider          |-> PyStr(self.provider),
            model             |-> PyStr(self.model),
            temperature       |-> self.temperature,
            top_p             |-> self.top_p,
            frequency_penalty |-> self.frequency_penalty,
            presence_penalty  |-> self.presence_penalty])

PromptConfig(content) == [content |-> content]

PromptConfig_to_dict(self) ==
    PyDict(<<"content">>, [content |-> PyStr(self.content)])

----------------------------------------------------------------------------
(* src/src/config/stackspot_config.py *)

\* get_stackspot_config() for settings that name realm "acme" and agent "a1"
\* and leave the URL settings at their defaults:
\*   auth_url      = build_url(auth base, realm, "oidc", "oauth", "token")
\*   inference_url = build_url(inference base, "v1", "agent", agent_id)
stackspot_config ==
    [agent_id      |-> "a1",
     realm         |-> "acme",
     auth_url      |-> <<"https", ":", "/", "/", "idm.stackspot.com", "/", "acme", "/", "oidc", "/", "oauth", "/", "token">>,
     inference_url |-> <<"https", ":", "/", "/", "genai-inference-app.stackspot.com", "/", "v1", "/", "agent", "/", "a1">>]

----------------------------------------------------------------------------
(* src/src/agents/stackspot_agent.py *)

\* the payload create() and update() build from the agent's fields
agent_payload(self) ==
    PyDict(<<"name", "description", "llm", "prompt">>,
           [name        |-> PyStr(self.name),
            description |-> PyStr(self.description),
            llm         |-> LLMConfig_to_dict(self.llm),
            prompt      |-> PromptConfig_to_dict(self.prompt)])

\* a variant that asks for the token twice and keeps the second
StackSpotAgent_token_twice(name, description, llm_config, prompt_config, client_id, client_secret, realm, auth_url, base_url, endpoint, reply) ==
    LET inference_url == py_or(base_url, PyStr(stackspot_config.inference_url))
        auth          == py_or(auth_url, PyStr(stackspot_config.auth_url))
        api_client    == StackSpotAPIClient(inference_url, auth, realm)
        token         == get_oauth_token(api_client.value, auth.v, client_id,
                                         client_secret, reply)
    IN IF ~api_client.ok THEN [sent |-> <<>>, outcome |-> api_client]
       ELSE IF ~token.outcome.ok THEN token
       ELSE [sent    |-> token.sent \o token.sent,
             outcome |-> Return([py           |-> "StackSpotAgent",
                                 name         |-> name,
                                 description  |-> description,
                                 llm          |-> llm_config,
                                 prompt       |-> prompt_config,
                                 api_client   |-> api_client.value,
                                 access_token |-> token.outcome.value,
                                 endpoint     |-> py_or(endpoint, PyStr(<<"chat">>)).v])]

\* StackSpotAgent(...), the token endpoint answering `reply`: the requests
\* sent and the agent object, or the exception that ends the construction
StackSpotAgent(name, description, llm_config, prompt_config, client_id, client_secret, realm, auth_url, base_url, endpoint, reply) ==
    LET inference_url == py_or(base_url, PyStr(stackspot_config.inference_url))
        auth          == py_or(auth_url, PyStr(stackspot_config.auth_url))
        api_client    == StackSpotAPIClient(inference_url, auth, realm)
        token         == get_oauth_token(api_client.value, auth.v, client_id,
                                         client_secret, reply)
    IN IF ~api_client.ok THEN [sent |-> <<>>, outcome |-> api_client]
       ELSE IF ~token.outcome.ok THEN token
       ELSE [sent    |-> token.sent,
             outcome |-> Return([py           |-> "StackSpotAgent",
                                 name         |-> name,
                                 description  |-> description,
                                 llm          |-> llm_config,
                                 prompt       |-> prompt_config,
                                 api_client   |-> api_client.value,
                                 access_token |-> token.outcome.value,
                                 endpoint     |-> py_or(endpoint, PyStr(<<"chat">>)).v])]

\* logger.success(f"... {result.get('id', 'No ID')}") in create(): a JSON
\* answer that is no object has no get, and the call ends in AttributeError
create_logs_id(res) ==
    IF res.outcome.ok /\ res.outcome.value.py # "dict"
    THEN [res EXCEPT !.outcome = Raise(AttributeError)]
    ELSE res

\* a method of the agent that ends as the client call `res` does: the agent
\* after it is the agent before, with its client as the call left it
agent_after(self, res) ==
    [self    |-> [self EXCEPT !.api_client = res.self],
     sent    |-> res.sent,
     outcome |-> res.outcome]

\* a variant that keeps the id the service assigned on the agent object
keeps_id(self, res) ==
    IF res.outcome.ok /\ "id" \in DOMAIN res.outcome.value.v
    THEN [res EXCEPT !.self = [name         |-> self.name,
                               description  |-> self.description,
                               llm          |-> self.llm,
                               prompt       |-> self.prompt,
                               api_client   |-> self.api_client,
                               access_token |-> self.access_token,
                               endpoint     |-> self.endpoint,
                               py           |-> self.py,
                               id           |-> res.outcome.value.v["id"]]]
    ELSE res

agent_create_keeps_id(self, reply) ==
    keeps_id(self,
        agent_after(self,
            create_logs_id(post(self.api_client, <<"agents">>, agent_payload(self),
                                self.access_token, PyNone, reply))))

agent_create(self, reply) ==
    agent_after(self,
        create_logs_id(post(self.api_client, <<"agents">>, agent_payload(self),
                            self.access_token, PyNone, reply)))

\* a variant that never passes the context on
execute_payload_no_context(prompt, context, streaming, use_stackspot_knowledge, return_ks_in_response) ==
    PyDict(<<"user_prompt", "context", "streaming", "stackspot_knowledge",
             "return_ks_in_response">>,
           [user_prompt           |-> PyStr(prompt),
            context               |-> PyList(<<>>),
            streaming             |-> PyBool(streaming),
            stackspot_knowledge   |-> PyBool(use_stackspot_knowledge),
            return_ks_in_response |-> PyBool(return_ks_in_response)])

\* the payload of execute()
execute_payload(prompt, context, streaming, use_stackspot_knowledge, return_ks_in_response) ==
    PyDict(<<"user_prompt", "context", "streaming", "stackspot_knowledge",
             "return_ks_in_response">>,
           [user_prompt           |-> PyStr(prompt),
            context               |-> py_or(context, PyList(<<>>)),
            streaming             |-> PyBool(streaming),
            stackspot_knowledge   |-> PyBool(use_stackspot_knowledge),
            return_ks_in_response |-> PyBool(return_ks_in_response)])

\* a variant that sends the request without the agent's token
agent_execute_no_token(self, prompt, context, streaming, use_stackspot_knowledge, return_ks_in_response, files, reply) ==
    agent_after(self,
        post(self.api_client, self.endpoint,
             execute_payload(prompt, context, streaming, use_stackspot_knowledge,
                             return_ks_in_response),
             PyNone, files, reply))

agent_execute(self, prompt, context, streaming, use_stackspot_knowledge, return_ks_in_response, files, reply) ==
    agent_after(self,
        post(self.api_client, self.endpoint,
             execute_payload(prompt, context, streaming, use_stackspot_knowledge,
                             return_ks_in_response),
             self.access_token, files, reply))

agent_list(self, reply) ==
    agent_after(self, get(self.api_client, <<"agents">>, self.access_token, reply))

agent_get(self, reply) ==
    agent_after(self,
        get(self.api_client, <<"agents", "/">> \o self.name, self.access_token, reply))

agent_update(self, reply) ==
    agent_after(self,
        put(self.api_client, <<"agents", "/">> \o self.name, agent_payload(self),
            self.access_token, reply))

\* a variant that leaves the name out of the path
agent_delete_collection(self, reply) ==
    agent_after(self,
        delete(self.api_client, <<"agents">>, self.access_token, reply))

agent_delete(self, reply) ==
    agent_after(self,
        delete(self.api_client, <<"agents", "/">> \o self.name, self.access_token, reply))

----------------------------------------------------------------------------
(* src/src/utils/file_utils.py, src/src/agents/chat.py *)

PyInt(n) == [py |-> "int", v |-> n]

FileNotFoundError(file_path) == [type |-> "FileNotFoundError", path |-> file_path]

\* the files that exist when the program starts (names without directories)
ExistingFiles == {"notes.txt", "data.bin"}

\* the names of the files the program is given
FileNames == {"notes.txt", "data.bin", "missing.txt"}

\* Path("uploads") / name
uploads_path(name) == "uploads/" \o name

\* Path(file_path).name: the path without its directories
path_name(file_path) ==
    IF \E name \in FileNames : file_path = uploads_path(name)
    THEN CHOOSE name \in FileNames : file_path = uploads_path(name)
    ELSE file_path

\* mimetypes.guess_type(str(file_path)) goes by the extension of the last
\* component of the path: .txt is text/plain, .bin is unknown and gives
\* 'application/octet-stream'
get_file_mimetype(file_path) ==
    IF path_name(file_path) \in {"notes.txt", "missing.txt"} THEN "text/plain"
    ELSE "application/octet-stream"

\* prepare_file_upload(file_path): the (name, open handle, mimetype) to upload;
\* disk holds the files that exist
prepare_file_upload(file_path, disk_) ==
    IF file_path \notin disk_ THEN Raise(FileNotFoundError(file_path))
    ELSE Return([file |-> [name     |-> path_name(file_path),
                           handle   |-> [path |-> file_path, mode |-> "rb"],
                           mimetype |-> get_file_mimetype(file_path)]])

\* f'file_{i}'
file_key(i) == "file_" \o <<"0", "1", "2", "3">>[i + 1]

RECURSIVE upload_files_from(_, _, _, _)

\* the loop of ask() over enumerate(files), from index i on, upload_files
\* holding the entries made so far: the dict, or the first exception
upload_files_from(files, i, upload_files, disk_) ==
    IF i >= Len(files) THEN Return(upload_files)
    ELSE LET file_info == prepare_file_upload(files[i + 1], disk_) IN
         IF ~file_info.ok THEN file_info
         ELSE upload_files_from(files, i + 1,
                  PyDict(Append(upload_files.keys, file_key(i)),
                         upload_files.v @@ (file_key(i) :> file_info.value.file)),
                  disk_)

\* a file object: the path it was opened on and whether it is closed
FileObject(path, closed) == [path |-> path, closed |-> closed]

RECURSIVE files_opened(_, _)

\* the file objects the loop of ask() over files has opened when it ends:
\* one for each file up to the first that does not exist; nothing in ask()
\* or below it calls close() on them, so they are open
files_opened(files, disk_) ==
    IF Len(files) = 0 \/ files[1] \notin disk_ THEN <<>>
    ELSE <<FileObject(files[1], FALSE)>> \o files_opened(Tail(files), disk_)

\* AgentChat(agent_id, ...): a StackSpotAgent named by the agent id, with
\* placeholder configurations
AgentChat(agent_id, realm, client_id, client_secret, auth_url, base_url, chat_endpoint, reply) ==
    StackSpotAgent(agent_id, "Existing agent",
                   [LLMConfig("openai", "gpt-4o-mini") EXCEPT !.temperature = PyInt(0)],
                   PromptConfig(""), client_id, client_secret, realm, auth_url,
                   base_url, chat_endpoint, reply)

\* answer = response.get("message", ""); return answer
ask_answer(res) ==
    IF ~res.outcome.ok THEN res
    ELSE IF res.outcome.value.py # "dict" THEN [res EXCEPT !.outcome = Raise(AttributeError)]
    ELSE IF "message" \in DOMAIN res.outcome.value.v
    THEN [res EXCEPT !.outcome = Return(res.outcome.value.v["message"])]
    ELSE [res EXCEPT !.outcome = Return(PyStr(""))]

\* ask() ended as `res` says, having opened the file objects `files`: when
\* it returned, its frame held the last references to them and the
\* interpreter closed them as it freed the frame (reference counting; no
\* close() in the code); when it raised, the exception's traceback holds the
\* frame, and they stay open for as long as the caller holds the exception
ask_ended(res, files) ==
    [opened |-> IF res.outcome.ok
                THEN [i \in 1..Len(files) |-> FileObject(files[i].path, TRUE)]
                ELSE files]
    @@ res

\* a variant that answers with empty text when the request fails
ask_swallows_failure(self, question, context, streaming, use_stackspot_docs, return_ks_in_response, files, reply, disk_) ==
    IF truthy(files) /\ ~upload_files_from(files.v, 0, EmptyPyDict, disk_).ok
    THEN [self |-> self, sent |-> <<>>,
          outcome |-> upload_files_from(files.v, 0, EmptyPyDict, disk_)]
    ELSE [ask_answer(agent_execute(self, question, context, streaming, use_stackspot_docs,
                           return_ks_in_response,
                           IF truthy(files) /\ truthy(upload_files_from(files.v, 0, EmptyPyDict, disk_).value)
                           THEN upload_files_from(files.v, 0, EmptyPyDict, disk_).value
                           ELSE PyNone,
                           reply))
          EXCEPT !.outcome = IF @.ok THEN @ ELSE Return(PyStr(""))]

\* the body of AgentChat.ask: the request and what ask() ends in
ask_outcome(self, question, context, streaming, use_stackspot_docs, return_ks_in_response, files, reply, disk_) ==
    IF truthy(files) /\ ~upload_files_from(files.v, 0, EmptyPyDict, disk_).ok
    THEN [self |-> self, sent |-> <<>>,
          outcome |-> upload_files_from(files.v, 0, EmptyPyDict, disk_)]
    ELSE ask_answer(agent_execute(self, question, context, streaming, use_stackspot_docs,
                          return_ks_in_response,
                          IF truthy(files) /\ truthy(upload_files_from(files.v, 0, EmptyPyDict, disk_).value)
                          THEN upload_files_from(files.v, 0, EmptyPyDict, disk_).value
                          ELSE PyNone,
                          reply))

\* AgentChat.ask(question, ...), the chat endpoint answering `reply`, with the
\* file objects it opened
ask(self, question, context, streaming, use_stackspot_docs, return_ks_in_response, files, reply, disk_) ==
    ask_ended(ask_outcome(self, question, context, streaming, use_stackspot_docs,
                          return_ks_in_response, files, reply, disk_),
              IF truthy(files) THEN files_opened(files.v, disk_) ELSE <<>>)

----------------------------------------------------------------------------
(* src/src/utils/file_uploader.py *)

\* d[key] on a mapping without the key
KeyError(key) == [type |-> "KeyError", key |-> key]

\* x[key] on a value that takes no text as an index (a list, None)
TypeError == [type |-> "TypeError"]

\* the settings the upload API's URL is built from
UploadSettings ==
    [base_url             |-> <<"https", ":", "/", "/", "upload.test">>,
     api_version          |-> <<"v1">>,
     file_upload_resource |-> <<"file-upload">>,
     form_endpoint        |-> <<"form">>]

\* FileUploader(access_token, account_id)
FileUploader(access_token, account_id) ==
    [py           |-> "FileUploader",
     access_token |-> access_token,
     account_id   |-> account_id,
     upload_api   |-> build_url(UploadSettings.base_url,
                                <<UploadSettings.api_version,
                                  UploadSettings.file_upload_resource,
                                  UploadSettings.form_endpoint>>, PyNone)]

\* self._create_headers()
uploader_create_headers(self) ==
    IF truthy(self.account_id)
    THEN _create_auth_header(PyStr(self.access_token)) @@ ("x-account-id" :> self.account_id.v)
    ELSE _create_auth_header(PyStr(self.access_token))

\* the request get_upload_form sends for a file name
upload_form_request(self, file_name) ==
    [method  |-> "POST",
     url     |-> self.upload_api,
     headers |-> uploader_create_headers(self),
     body    |-> [kind |-> "json",
                  json |-> PyDict(<<"file_name", "target_type", "expiration">>,
                                  [file_name   |-> PyStr(file_name),
                                   target_type |-> PyStr("CONTEXT"),
                                   expiration  |-> PyInt(60)])]]

\* self.get_upload_form(file_name), the upload API answering `reply`
get_upload_form(self, file_name, reply) ==
    [self    |-> self,
     sent    |-> <<upload_form_request(self, file_name)>>,
     outcome |-> receive(reply),
     opened  |-> <<>>]

\* x[key] for a text key: the value, or the exception the lookup raises
subscript(x, key) ==
    IF x.py # "dict" THEN Raise(TypeError)
    ELSE IF key \notin DOMAIN x.v THEN Raise(KeyError(key))
    ELSE Return(x.v[key])

\* the fields of the pre-signed form that upload_to_s3 reads without a test
S3FormKeys ==
    <<"key", "x-amz-algorithm", "x-amz-credential", "x-amz-date", "policy", "x-amz-signature">>

RECURSIVE first_missing(_, _)

\* the first exception that reading the keys of the form in turn raises, or
\* Return(None) when every one is there
first_missing(form, keys) ==
    IF Len(keys) = 0 THEN Return(PyNone)
    ELSE IF ~subscript(form, keys[1]).ok THEN subscript(form, keys[1])
    ELSE first_missing(form, Tail(keys))

\* the data= of the request to S3: the six fields, and the security token
\* when the form has one
s3_data(form) ==
    LET keys == IF "x-amz-security-token" \in DOMAIN form.v
                THEN S3FormKeys \o <<"x-amz-security-token">>
                ELSE S3FormKeys
    IN PyDict(keys, [k \in {keys[i] : i \in 1..Len(keys)} |-> form.v[k]])

\* what requests.post(...); response.raise_for_status() ends in
posted(reply) ==
    IF ~reply.received THEN Raise(ConnectionError)
    ELSE IF raises_for_status(reply) THEN Raise(HTTPError(reply.status_code))
    ELSE Return(PyNone)

\* self.upload_to_s3(upload_data, file_path), S3 answering `reply`: the file
\* is opened after the url and the form were read, and the finally clause
\* closes it on every way out once it is open
upload_to_s3(self, upload_data, file_path, reply, disk_) ==
    IF ~subscript(upload_data, "url").ok
    THEN [self |-> self, sent |-> <<>>, outcome |-> subscript(upload_data, "url"),
          opened |-> <<>>]
    ELSE IF ~subscript(upload_data, "form").ok
    THEN [self |-> self, sent |-> <<>>, outcome |-> subscript(upload_data, "form"),
          opened |-> <<>>]
    ELSE IF file_path \notin disk_
    THEN [self |-> self, sent |-> <<>>, outcome |-> Raise(FileNotFoundError(file_path)),
          opened |-> <<>>]
    ELSE IF ~first_missing(upload_data.v["form"], S3FormKeys).ok
    THEN [self |-> self, sent |-> <<>>,
          outcome |-> first_missing(upload_data.v["form"], S3FormKeys),
          opened |-> <<FileObject(file_path, TRUE)>>]
    ELSE [self    |-> self,
          sent    |-> <<[method  |-> "POST",
                         url     |-> upload_data.v["url"].v,
                         headers |-> EmptyDict,
                         body    |-> [kind  |-> "multipart",
                                      data  |-> s3_data(upload_data.v["form"]),
                                      files |-> PyDict(<<"file">>,
                                                  [k \in {"file"} |->
                                                      [path |-> file_path, mode |-> "rb"]])]]>>,
          outcome |-> posted(reply),
          opened  |-> <<FileObject(file_path, TRUE)>>]

RECURSIVE upload_files_from_paths(_, _, _, _, _, _, _), upload_files_skips_failures(_, _, _, _)

\* the end of one round of the loop of upload_files, the form `form` got and
\* the upload `up` done: the id is read from the form and the loop goes on
\* with the next file, or the exception leaves
upload_files_uploaded(self, file_paths, replies, disk_, upload_ids, sent_, opened_, form, up) ==
    IF ~up.outcome.ok
    THEN [self |-> self, sent |-> sent_, outcome |-> up.outcome, opened |-> opened_]
    ELSE IF ~subscript(form, "id").ok
    THEN [self |-> self, sent |-> sent_, outcome |-> subscript(form, "id"),
          opened |-> opened_]
    ELSE upload_files_from_paths(self, Tail(file_paths), Tail(replies), disk_,
                                 Append(upload_ids, form.v["id"]), sent_, opened_)

\* one round of the loop, get_upload_form having ended in `got`
upload_files_form(self, file_paths, replies, disk_, upload_ids, sent_, opened_, got) ==
    IF ~got.outcome.ok
    THEN [self |-> self, sent |-> sent_ \o got.sent, outcome |-> got.outcome,
          opened |-> opened_]
    ELSE upload_files_uploaded(self, file_paths, replies, disk_, upload_ids,
             sent_ \o got.sent
                   \o upload_to_s3(self, got.outcome.value, file_paths[1], replies[1].s3, disk_).sent,
             opened_ \o upload_to_s3(self, got.outcome.value, file_paths[1], replies[1].s3, disk_).opened,
             got.outcome.value,
             upload_to_s3(self, got.outcome.value, file_paths[1], replies[1].s3, disk_))

\* the loop of upload_files over the files left, upload_ids holding the ids
\* collected so far; replies[i] holds the answers to the two requests for
\* the i-th file left; the form is asked for file_path.name
upload_files_from_paths(self, file_paths, replies, disk_, upload_ids, sent_, opened_) ==
    IF Len(file_paths) = 0
    THEN [self |-> self, sent |-> sent_, outcome |-> Return(PyList(upload_ids)),
          opened |-> opened_]
    ELSE upload_files_form(self, file_paths, replies, disk_, upload_ids, sent_, opened_,
                           get_upload_form(self, path_name(file_paths[1]), replies[1].form))

\* a variant that logs a failed file and goes on with the next one
upload_files_skips_failures(self, file_paths, replies, disk_) ==
    IF Len(file_paths) = 0
    THEN [self |-> self, sent |-> <<>>, outcome |-> Return(PyList(<<>>)), opened |-> <<>>]
    ELSE [self    |-> self,
          sent    |-> upload_files_from_paths(self, <<file_paths[1]>>, <<replies[1]>>, disk_,
                                              <<>>, <<>>, <<>>).sent
                      \o upload_files_skips_failures(self, Tail(file_paths), Tail(replies), disk_).sent,
          outcome |-> Return(PyList(
                        (IF upload_files_from_paths(self, <<file_paths[1]>>, <<replies[1]>>, disk_,
                                                    <<>>, <<>>, <<>>).outcome.ok
                         THEN upload_files_from_paths(self, <<file_paths[1]>>, <<replies[1]>>, disk_,
                                                      <<>>, <<>>, <<>>).outcome.value.v
                         ELSE <<>>)
                        \o upload_files_skips_failures(self, Tail(file_paths), Tail(replies),
                                                       disk_).outcome.value.v)),
          opened  |-> upload_files_from_paths(self, <<file_paths[1]>>, <<replies[1]>>, disk_,
                                              <<>>, <<>>, <<>>).opened
                      \o upload_files_skips_failures(self, Tail(file_paths), Tail(replies), disk_).opened]

\* self.upload_files(file_paths): the ids of the uploads, or the first
\* exception
upload_files(self, file_paths, replies, disk_) ==
    upload_files_from_paths(self, file_paths, replies, disk_, <<>>, <<>>, <<>>)

----------------------------------------------------------------------------
(* src/src/models/chat_session.py *)

\* Message(role, content): the timestamp defaults to datetime.now()
Message(role, content, clock) ==
    [role |-> role, content |-> content, timestamp |-> clock]

\* ChatSession(): a fresh uuid, an empty list (allocated at heap.msgs), the metadata given
ChatSession(conversation_id, metadata) ==
    [conversation_id |-> conversation_id, messages |-> "msgs", metadata |-> metadata]

\* a variant that inserts at the head of the list instead of appending
add_message_prepend(h, self, role, content, clock) ==
    [h EXCEPT ![self.messages] = <<Message(role, content, clock)>> \o @]

\* self.messages.append(Message(role=role, content=content)): in place
add_message(h, self, role, content, clock) ==
    [h EXCEPT ![self.messages] = Append(@, Message(role, content, clock))]

\* a variant that hands out the session's own list instead of a new one
get_context_alias(h, self) ==
    [ref |-> self.messages, heap |-> h]

\* the list comprehension of get_context builds a new list of new dicts;
\* the result is the reference returned and the heap after the allocation
get_context(h, self) ==
    [ref  |-> "ctx",
     heap |-> [h EXCEPT !.ctx =
                 [i \in 1..Len(h[self.messages]) |->
                    [role    |-> h[self.messages][i].role,
                     content |-> h[self.messages][i].content]]]]

\* a variant that also starts a new conversation
clear_new_conversation(h, self) ==
    [session |-> [self EXCEPT !.conversation_id = "uuid-new"],
     heap    |-> [h EXCEPT ![self.messages] = <<>>]]

\* self.messages.clear(): in place, the other fields untouched
clear(h, self) ==
    [session |-> self, heap |-> [h EXCEPT ![self.messages] = <<>>]]

----------------------------------------------------------------------------
(* Calls with keyword arguments: the dataclass constructors of               *)
(* src/src/models and StackSpotAgent.__init__                                *)

\* the binding of the keyword arguments of a call to the parameters of a
\* signature: a TypeError for a keyword that is no parameter or for a
\* parameter without default that is not given, else every parameter with
\* its argument or its default
py_bind(params, defaults, kwargs) ==
    IF \E k \in DOMAIN kwargs : k \notin params THEN Raise(TypeError)
    ELSE IF \E p \in params : p \notin DOMAIN kwargs /\ p \notin DOMAIN defaults
    THEN Raise(TypeError)
    ELSE Return([p \in params |-> IF p \in DOMAIN kwargs THEN kwargs[p] ELSE defaults[p]])

\* the fields of the LLMConfig dataclass, and those with a default
LLMConfigFields ==
    {"provider", "model", "temperature", "top_p", "frequency_penalty", "presence_penalty"}

LLMConfigDefaults ==
    [temperature       |-> PyFloat("0.7"),
     top_p             |-> PyFloat("1.0"),
     frequency_penalty |-> PyFloat("0.1"),
     presence_penalty  |-> PyFloat("0.0")]

\* LLMConfig(**kwargs)
LLMConfig_call(kwargs) == py_bind(LLMConfigFields, LLMConfigDefaults, kwargs)

\* PromptConfig(**kwargs)
PromptConfig_call(kwargs) == py_bind({"content"}, EmptyDict, kwargs)

\* the parameters of StackSpotAgent.__init__, and those with a default
StackSpotAgentParams ==
    {"name", "description", "llm_config", "prompt_config", "client_id", "client_secret",
     "realm", "auth_url", "base_url", "endpoint"}

StackSpotAgentDefaults == [auth_url |-> PyNone, base_url |-> PyNone, endpoint |-> PyNone]

\* the body of __init__ on the arguments bound
StackSpotAgent_bound(bound, reply) ==
    IF ~bound.ok THEN [sent |-> <<>>, outcome |-> bound]
    ELSE StackSpotAgent(bound.value.name, bound.value.description, bound.value.llm_config,
                        bound.value.prompt_config, bound.value.client_id,
                        bound.value.client_secret, bound.value.realm, bound.value.auth_url,
                        bound.value.base_url, bound.value.endpoint, reply)

\* StackSpotAgent(**kwargs), the token endpoint answering `reply`
StackSpotAgent_call(kwargs, reply) ==
    StackSpotAgent_bound(py_bind(StackSpotAgentParams, StackSpotAgentDefaults, kwargs), reply)

----------------------------------------------------------------------------
(* The chat turn of the front-ends: src/web/chainlit_app.py and              *)
(* src/examples/chat_with_existing_agent.py, chat_with_files.py              *)

\* a content as the session stores it, as a Python value: a message holds
\* whatever add_message was given, a text (a string of the model) or any
\* other value (tagged), and get_context hands it out unchanged
py_value(content) ==
    IF SubSeq(ToString(content), 1, 1) = "\"" THEN PyStr(content) ELSE content

\* the list get_context() built, as the value handed to ask()
py_context(list) ==
    PyList([i \in 1..Len(list) |->
               PyDict(<<"role", "content">>,
                      [k \in {"role", "content"} |->
                          IF k = "role" THEN PyStr(list[i].role)
                          ELSE py_value(list[i].content)])])

\* files if files else None
files_or_none(files) == IF Len(files) > 0 THEN PyList(files) ELSE PyNone

\* the paths of a list, as a set
paths_of(files) == {files[i] : i \in 1..Len(files)}

\* the content of the message that holds the answer: the text of a string
content_of(answer) == IF answer.py = "str" THEN answer.v ELSE answer

\* the rest of a turn of the web handler, the user message added (heap h1)
\* and ask() ended in `asked`: when ask() returned, the temporary files are
\* unlinked and the answer is added; when it raised, the handler's except
\* clause is next and neither happens
web_turn_asked(h1, self, asked, files, disk_, clock) ==
    IF asked.outcome.ok
    THEN [heap    |-> add_message(h1, self, "assistant",
                                  content_of(asked.outcome.value), clock),
          disk    |-> disk_ \ paths_of(files),
          sent    |-> asked.sent,
          outcome |-> asked.outcome,
          opened  |-> asked.opened]
    ELSE [heap    |-> h1,
          disk    |-> disk_,
          sent    |-> asked.sent,
          outcome |-> asked.outcome,
          opened  |-> asked.opened]

\* a variant that adds the user message only after the answer arrived, and
\* behind it
web_turn_answer_first(h, self, chat, question, files, reply, disk_, clock) ==
    web_turn_asked(
        IF ask(chat, question, py_context(get_context(h, self).heap.ctx), FALSE, TRUE, FALSE,
               files_or_none(files), reply, disk_).outcome.ok
        THEN get_context(h, self).heap
        ELSE get_context(add_message(h, self, "user", question, clock), self).heap,
        self,
        ask(chat, question, py_context(get_context(h, self).heap.ctx), FALSE, TRUE, FALSE,
            files_or_none(files), reply, disk_),
        files, disk_, clock)

\* the turn of the web handler: session.add_message("user", ...), chat.ask
\* with the context session.get_context() returns, the cleanup of the
\* temporary files, session.add_message("assistant", ...)
web_turn(h, self, chat, question, files, reply, disk_, clock) ==
    web_turn_asked(
        get_context(add_message(h, self, "user", question, clock), self).heap,
        self,
        ask(chat, question,
            py_context(get_context(add_message(h, self, "user", question, clock), self).heap.ctx),
            FALSE, TRUE, FALSE, files_or_none(files), reply, disk_),
        files, disk_, clock + 1)

\* the handler from `chat = AgentChat(...)` on, the constructor having ended
\* in `made`: an exception of the constructor goes to the except clause
\* before anything is added to the session
web_chat_made(h, self, made, question, files, reply, disk_, clock) ==
    IF ~made.outcome.ok
    THEN [heap |-> h, disk |-> disk_, sent |-> made.sent, outcome |-> made.outcome,
          opened |-> <<>>]
    ELSE [web_turn(h, self, [made.outcome.value EXCEPT !.py = "AgentChat"], question,
                   files, reply, disk_, clock)
          EXCEPT !.sent = made.sent \o @]

\* the handler from `chat = AgentChat(...)` to its end, the token endpoint
\* answering token_reply and the chat endpoint reply; the settings leave the
\* chat endpoint unset
web_chat(h, self, question, files, token_reply, reply, disk_, clock) ==
    web_chat_made(h, self,
                  AgentChat(<<stackspot_config.agent_id>>, PyStr(stackspot_config.realm),
                            "id", "secret", PyStr(stackspot_config.auth_url),
                            PyStr(stackspot_config.inference_url), PyNone, token_reply),
                  question, files, reply, disk_, clock)

\* the rest of a turn of the console loop, the user message added (heap h1)
\* and ask() ended in `asked`; when ask() raised, the except clause of the
\* loop logs the exception and drops it, and the file objects that its
\* traceback kept open are closed as the interpreter frees them
console_turn_asked(h1, self, asked, clock) ==
    IF asked.outcome.ok
    THEN [heap    |-> add_message(h1, self, "assistant",
                                  content_of(asked.outcome.value), clock),
          sent    |-> asked.sent,
          outcome |-> asked.outcome,
          opened  |-> asked.opened]
    ELSE [heap    |-> h1,
          sent    |-> asked.sent,
          outcome |-> asked.outcome,
          opened  |-> [i \in 1..Len(asked.opened) |->
                         FileObject(asked.opened[i].path, TRUE)]]

\* a variant that takes the question back out of the session when ask() fails
console_turn_rolls_back(h, self, chat, question, files, reply, disk_, clock) ==
    IF ask(chat, question,
           py_context(get_context(add_message(h, self, "user", question, clock), self).heap.ctx),
           FALSE, TRUE, FALSE, files_or_none(files), reply, disk_).outcome.ok
    THEN console_turn_asked(
             get_context(add_message(h, self, "user", question, clock), self).heap,
             self,
             ask(chat, question,
                 py_context(get_context(add_message(h, self, "user", question, clock), self).heap.ctx),
                 FALSE, TRUE, FALSE, files_or_none(files), reply, disk_),
             clock + 1)
    ELSE console_turn_asked(h, self,
             ask(chat, question,
                 py_context(get_context(add_message(h, self, "user", question, clock), self).heap.ctx),
                 FALSE, TRUE, FALSE, files_or_none(files), reply, disk_),
             clock + 1)

\* a turn of the console loop: session.add_message("user", question),
\* chat.ask with the context session.get_context() returns,
\* session.add_message("assistant", answer)
console_turn(h, self, chat, question, files, reply, disk_, clock) ==
    console_turn_asked(
        get_context(add_message(h, self, "user", question, clock), self).heap,
        self,
        ask(chat, question,
            py_context(get_context(add_message(h, self, "user", question, clock), self).heap.ctx),
            FALSE, TRUE, FALSE, files_or_none(files), reply, disk_),
        clock + 1)

----------------------------------------------------------------------------
(* The session's operations as steps *)

\* no front-end runs
NoFront == [kind |-> "none"]

\* no client and no agent yet, nothing sent
NoObjects ==
    /\ client = PyNone
    /\ agent = PyNone
    /\ sent = <<>>
    /\ mark = 0
    /\ born = 0
    /\ call = [op |-> "none"]
    /\ lastReply = NoReply
    /\ result = Return(PyNone)
    /\ disk = ExistingFiles
    /\ opened = <<>>
    /\ front = NoFront

InitSession ==
    /\ \E c \in ConversationIds, m \in Metadatas : session = ChatSession(c, m)
    /\ heap = [msgs |-> <<>>, ctx |-> <<>>]
    /\ returned = "none"
    /\ now = 0
    /\ calls = <<>>
    /\ cleared = FALSE
    /\ lastOp = "init"
    /\ NoObjects

AddMessage ==
    /\ now < MaxClock
    /\ \E r \in Roles, c \in Contents :
          /\ heap' = add_message(heap, session, r, c, now)
          /\ calls' = Append(calls, [role |-> r, content |-> c])
    /\ now' = now + 1
    /\ lastOp' = "add_message"
    /\ UNCHANGED <<session, returned, cleared>>
    /\ UNCHANGED clientVars

GetContext ==
    /\ LET res == get_context(heap, session) IN
          /\ heap' = res.heap
          /\ returned' = res.ref
    /\ lastOp' = "get_context"
    /\ UNCHANGED <<session, now, calls, cleared>>
    /\ UNCHANGED clientVars

Clear ==
    /\ LET res == clear(heap, session) IN
          /\ session' = res.session
          /\ heap' = res.heap
    /\ calls' = <<>>
    /\ cleared' = TRUE
    /\ lastOp' = "clear"
    /\ UNCHANGED <<returned, now>>
    /\ UNCHANGED clientVars

\* the caller changes the list it got from get_context(): it drops the last
\* entry, appends one, or rewrites the content of the first
CallerDropsLast ==
    /\ returned # "none"
    /\ Len(heap[returned]) > 0
    /\ heap' = [heap EXCEPT ![returned] = SubSeq(@, 1, Len(@) - 1)]
    /\ lastOp' = "caller_mutates"
    /\ UNCHANGED <<session, returned, now, calls, cleared>>
    /\ UNCHANGED clientVars

CallerAppends ==
    /\ returned # "none"
    /\ Len(heap[returned]) < MaxClock
    /\ heap' = [heap EXCEPT ![returned] =
                   Append(@, [role |-> "system", content |-> "injected"])]
    /\ lastOp' = "caller_mutates"
    /\ UNCHANGED <<session, returned, now, calls, cleared>>
    /\ UNCHANGED clientVars

CallerRewritesFirst ==
    /\ returned # "none"
    /\ Len(heap[returned]) > 0
    /\ heap[returned][1].content # "edited"
    /\ heap' = [heap EXCEPT ![returned][1].content = "edited"]
    /\ lastOp' = "caller_mutates"
    /\ UNCHANGED <<session, returned, now, calls, cleared>>
    /\ UNCHANGED clientVars

NextSession ==
    \/ AddMessage
    \/ GetContext
    \/ Clear
    \/ CallerDropsLast
    \/ CallerAppends
    \/ CallerRewritesFirst

SpecSession == InitSession /\ [][NextSession]_vars

----------------------------------------------------------------------------
(* Inputs of the client and the agent *)

\* direct client calls in one behaviour
MaxCalls == 2

\* requests on the network in one behaviour of the agent
MaxRequests == 3

\* a JSON object with the one key given
JsonObject(key, value) == Json(PyDict(<<key>>, (key :> value)))

\* what the token endpoint may answer: no answer at all, a token under 200 or
\* 201, a 2xx answer without a usable token (no JSON, no object, no key, null, ""),
\* a token under 300 (a redirect status requests does not follow), 401 and 500
TokenReplies ==
    {TransportFailure,
     Response(200, JsonObject("access_token", PyStr("T1"))),
     Response(201, JsonObject("access_token", PyStr("T2"))),
     Response(200, JsonObject("access_token", PyStr(""))),
     Response(200, JsonObject("access_token", PyNone)),
     Response(200, JsonObject("error", PyStr("invalid_client"))),
     Response(200, Json(PyList(<<>>))),
     Response(200, NotJson),
     Response(300, JsonObject("access_token", PyStr("T1"))),
     Response(401, JsonObject("error", PyStr("invalid_client"))),
     Response(500, NotJson)}

\* what the REST endpoints may answer
RestReplies ==
    {TransportFailure,
     Response(200, JsonObject("message", PyStr("Hello!"))),
     Response(201, JsonObject("response", PyStr("Hello!"))),
     Response(200, JsonObject("id", PyStr("a1"))),
     Response(200, Json(PyList(<<>>))),
     Response(204, NotJson),
     Response(300, JsonObject("message", PyStr("Hello!"))),
     Response(404, JsonObject("error", PyStr("not found"))),
     Response(500, NotJson)}

Realms == {PyNone, PyStr(""), PyStr("acme")}

BaseUrls == {PyNone, PyStr(<<"https", ":", "/", "/", "api.test", "/", "v1", "/">>)}

TokenUrl == <<"https", ":", "/", "/", "idm.test", "/", "acme", "/", "oidc", "/", "oauth", "/", "token">>

Endpoints == {<<"agents">>, <<"/", "chat", "/">>}

AccessTokens == {PyStr("T1"), PyStr("T2")}

OneContext ==
    PyList(<<PyDict(<<"role", "content">>,
                    [role |-> PyStr("user"), content |-> PyStr("hi")])>>)

OneFile ==
    PyDict(<<"file_0">>,
           [file_0 |-> [name |-> "notes.txt", handle |-> "fd-1", mimetype |-> "text/plain"]])

FilesArgs == {PyNone, EmptyPyDict, OneFile}

TwoContext ==
    PyList(<<PyDict(<<"role", "content">>,
                    [role |-> PyStr("user"), content |-> PyStr("hi")]),
             PyDict(<<"role", "content">>,
                    [role |-> PyStr("assistant"), content |-> PyStr("hello")])>>)

\* the arguments execute() is called with
ExecuteArgs ==
    {[prompt |-> "hi", context |-> PyNone, streaming |-> TRUE,
      use_stackspot_knowledge |-> TRUE, return_ks_in_response |-> FALSE, files |-> PyNone],
     [prompt |-> "hi", context |-> PyList(<<>>), streaming |-> FALSE,
      use_stackspot_knowledge |-> FALSE, return_ks_in_response |-> TRUE, files |-> EmptyPyDict],
     [prompt |-> "more", context |-> TwoContext, streaming |-> FALSE,
      use_stackspot_knowledge |-> FALSE, return_ks_in_response |-> TRUE, files |-> PyNone],
     [prompt |-> "hi", context |-> TwoContext, streaming |-> TRUE,
      use_stackspot_knowledge |-> TRUE, return_ks_in_response |-> FALSE, files |-> OneFile],
     [prompt |-> "more", context |-> PyNone, streaming |-> FALSE,
      use_stackspot_knowledge |-> TRUE, return_ks_in_response |-> FALSE, files |-> OneFile]}

\* the arguments ask() is called with
AskArgs ==
    {[question |-> "hi", context |-> PyNone, files |-> PyNone],
     [question |-> "hi", context |-> OneContext, files |-> PyList(<<>>)],
     [question |-> "more", context |-> TwoContext, files |-> PyList(<<"notes.txt", "data.bin">>)],
     [question |-> "more", context |-> PyNone, files |-> PyList(<<"notes.txt", "missing.txt">>)]}

Payload ==
    PyDict(<<"user_prompt", "context", "streaming">>,
           [user_prompt |-> PyStr("hi"),
            context     |-> OneContext,
            streaming   |-> PyBool(TRUE)])

\* the session is not used by the client or the agent
NoSession ==
    /\ session = ChatSession("uuid-1", EmptyDict)
    /\ heap = [msgs |-> <<>>, ctx |-> <<>>]
    /\ returned = "none"
    /\ now = 0
    /\ calls = <<>>
    /\ cleared = FALSE
    /\ lastOp = "init"

\* an invocation `inv` (its requests and outcome) as a step of the network
Invoke(c, inv, rep) ==
    /\ call' = c
    /\ mark' = Len(sent)
    /\ sent' = sent \o inv.sent
    /\ lastReply' = IF Len(inv.sent) = 0 THEN NoReply ELSE rep
    /\ result' = inv.outcome
    /\ opened' = IF "opened" \in DOMAIN inv THEN inv.opened ELSE <<>>
    /\ UNCHANGED <<disk, front>>

\* an invocation of a method of the client: the client is as the method left it
InvokeClient(c, inv, rep) ==
    /\ client' = inv.self
    /\ Invoke(c, inv, rep)

\* an invocation of a method of the agent: the agent is as the method left it
InvokeAgent(c, inv, rep) ==
    /\ agent' = inv.self
    /\ Invoke(c, inv, rep)

----------------------------------------------------------------------------
(* Direct use of the REST client *)

InitClient == NoSession /\ NoObjects

NewClient ==
    /\ client = PyNone
    /\ \E base_url \in BaseUrls, realm \in Realms :
          LET made == StackSpotAPIClient(base_url, PyNone, realm) IN
          /\ client' = IF made.ok THEN made.value ELSE PyNone
          /\ Invoke([op |-> "StackSpotAPIClient", realm |-> realm],
                    [sent |-> <<>>, outcome |-> made], NoReply)
    /\ UNCHANGED <<agent, born>>
    /\ UNCHANGED sessionVars

CallGetOAuthToken ==
    /\ client # PyNone
    /\ Len(sent) < MaxCalls
    /\ \E rep \in TokenReplies :
          InvokeClient([op |-> "get_oauth_token"],
                       get_oauth_token(client, TokenUrl, "id", "secret", rep), rep)
    /\ UNCHANGED <<agent, born>>
    /\ UNCHANGED sessionVars

CallGet ==
    /\ client # PyNone
    /\ Len(sent) < MaxCalls
    /\ \E endpoint \in Endpoints, access_token \in AccessTokens, rep \in RestReplies :
          InvokeClient([op |-> "get", endpoint |-> endpoint, access_token |-> access_token],
                       get(client, endpoint, access_token, rep), rep)
    /\ UNCHANGED <<agent, born>>
    /\ UNCHANGED sessionVars

CallPost ==
    /\ client # PyNone
    /\ Len(sent) < MaxCalls
    /\ \E endpoint \in Endpoints, access_token \in AccessTokens, files \in FilesArgs,
          rep \in RestReplies :
          InvokeClient([op |-> "post", endpoint |-> endpoint, access_token |-> access_token,
                     data |-> Payload, files |-> files],
                       post(client, endpoint, Payload, access_token, files, rep), rep)
    /\ UNCHANGED <<agent, born>>
    /\ UNCHANGED sessionVars

CallPut ==
    /\ client # PyNone
    /\ Len(sent) < MaxCalls
    /\ \E endpoint \in Endpoints, access_token \in AccessTokens, rep \in RestReplies :
          InvokeClient([op |-> "put", endpoint |-> endpoint, access_token |-> access_token,
                     data |-> Payload],
                       put(client, endpoint, Payload, access_token, rep), rep)
    /\ UNCHANGED <<agent, born>>
    /\ UNCHANGED sessionVars

CallDelete ==
    /\ client # PyNone
    /\ Len(sent) < MaxCalls
    /\ \E endpoint \in Endpoints, access_token \in AccessTokens, rep \in RestReplies :
          InvokeClient([op |-> "delete", endpoint |-> endpoint, access_token |-> access_token],
                       delete(client, endpoint, access_token, rep), rep)
    /\ UNCHANGED <<agent, born>>
    /\ UNCHANGED sessionVars

NextClient ==
    \/ NewClient
    \/ CallGetOAuthToken
    \/ CallGet
    \/ CallPost
    \/ CallPut
    \/ CallDelete

SpecClient == InitClient /\ [][NextClient]_vars

----------------------------------------------------------------------------
(* The agent *)

\* the (name, base_url, endpoint) a StackSpotAgent is constructed with
ConstructArgs ==
    {[name |-> <<"bot">>, base_url |-> PyNone, endpoint |-> PyNone],
     [name |-> <<"a1">>, base_url |-> PyNone, endpoint |-> PyStr(<<"custom", "/", "chat">>)],
     [name |-> <<"a1">>, base_url |-> PyStr(<<"https", ":", "/", "/", "api.test", "/", "v1", "/">>),
      endpoint |-> PyNone],
     [name |-> <<"bot">>, base_url |-> PyStr(<<"https", ":", "/", "/", "api.test", "/", "v1", "/">>),
      endpoint |-> PyStr(<<"custom", "/", "chat">>)]}

\* the (agent_id, base_url, chat_endpoint) an AgentChat is constructed with
ChatArgs ==
    {[name |-> <<"a1">>, base_url |-> PyNone, endpoint |-> PyNone],
     [name |-> <<"bot">>, base_url |-> PyStr(<<"https", ":", "/", "/", "api.test", "/", "v1", "/">>),
      endpoint |-> PyStr(<<"custom", "/", "chat">>)]}

\* what the token endpoint answers while an AgentChat is constructed
ChatTokenReplies ==
    {Response(200, JsonObject("access_token", PyStr("T1"))),
     Response(401, JsonObject("error", PyStr("invalid_client")))}


InitAgent == NoSession /\ NoObjects

\* agent = StackSpotAgent(...): on an exception no object comes to exist
Construct ==
    /\ agent = PyNone
    /\ Len(sent) < MaxRequests
    /\ \E args \in ConstructArgs, realm \in Realms, rep \in TokenReplies :
          LET made == StackSpotAgent(args.name, "a test agent",
                                     LLMConfig("openai", "gpt-4o-mini"),
                                     PromptConfig("be brief"), "id", "secret", realm,
                                     PyNone, args.base_url, args.endpoint, rep)
          IN /\ agent' = IF made.outcome.ok THEN made.outcome.value ELSE PyNone
             /\ Invoke([op |-> "StackSpotAgent", realm |-> realm] @@ args, made, rep)
    /\ born' = Len(sent)
    /\ UNCHANGED client
    /\ UNCHANGED sessionVars

\* chat = AgentChat(...)
ConstructChat ==
    /\ agent = PyNone
    /\ Len(sent) < MaxRequests
    /\ \E args \in ChatArgs, realm \in {PyNone, PyStr("acme")}, rep \in ChatTokenReplies :
          LET made == AgentChat(args.name, realm, "id", "secret", PyNone, args.base_url,
                                args.endpoint, rep)
          IN /\ agent' = IF made.outcome.ok
                         THEN [made.outcome.value EXCEPT !.py = "AgentChat"]
                         ELSE PyNone
             /\ Invoke([op |-> "AgentChat", realm |-> realm] @@ args, made, rep)
    /\ born' = Len(sent)
    /\ UNCHANGED client
    /\ UNCHANGED sessionVars

Ask ==
    /\ agent # PyNone
    /\ agent.py = "AgentChat"
    /\ Len(sent) < MaxRequests
    /\ \E args \in AskArgs, rep \in RestReplies :
          InvokeAgent([op |-> "ask"] @@ args,
                      ask(agent, args.question, args.context, TRUE, TRUE, TRUE,
                         args.files, rep, disk), rep)
    /\ UNCHANGED <<client, born>>
    /\ UNCHANGED sessionVars

Create ==
    /\ agent # PyNone
    /\ Len(sent) < MaxRequests
    /\ \E rep \in RestReplies :
          InvokeAgent([op |-> "create"],
                      agent_create(agent, rep), rep)
    /\ UNCHANGED <<client, born>>
    /\ UNCHANGED sessionVars

Execute ==
    /\ agent # PyNone
    /\ Len(sent) < MaxRequests
    /\ \E args \in ExecuteArgs, rep \in RestReplies :
          InvokeAgent([op |-> "execute"] @@ args,
                      agent_execute(agent, args.prompt, args.context, args.streaming,
                                   args.use_stackspot_knowledge,
                                   args.return_ks_in_response, args.files, rep), rep)
    /\ UNCHANGED <<client, born>>
    /\ UNCHANGED sessionVars

List ==
    /\ agent # PyNone
    /\ Len(sent) < MaxRequests
    /\ \E rep \in RestReplies :
          InvokeAgent([op |-> "list"],
                      agent_list(agent, rep), rep)
    /\ UNCHANGED <<client, born>>
    /\ UNCHANGED sessionVars

Get ==
    /\ agent # PyNone
    /\ Len(sent) < MaxRequests
    /\ \E rep \in RestReplies :
          InvokeAgent([op |-> "get"],
                      agent_get(agent, rep), rep)
    /\ UNCHANGED <<client, born>>
    /\ UNCHANGED sessionVars

Update ==
    /\ agent # PyNone
    /\ Len(sent) < MaxRequests
    /\ \E rep \in RestReplies :
          InvokeAgent([op |-> "update"],
                      agent_update(agent, rep), rep)
    /\ UNCHANGED <<client, born>>
    /\ UNCHANGED sessionVars

Delete ==
    /\ agent # PyNone
    /\ Len(sent) < MaxRequests
    /\ \E rep \in RestReplies :
          InvokeAgent([op |-> "delete"],
                      agent_delete(agent, rep), rep)
    /\ UNCHANGED <<client, born>>
    /\ UNCHANGED sessionVars

NextAgent ==
    \/ Construct
    \/ ConstructChat
    \/ Ask
    \/ Create
    \/ Execute
    \/ List
    \/ Get
    \/ Update
    \/ Delete

SpecAgent == InitAgent /\ [][NextAgent]_vars

----------------------------------------------------------------------------
(* The URL builder on its own *)

\* slashes a segment may carry at each of its ends
MaxSlashes == 2

\* n slashes
Slashes(n) == [i \in 1..n |-> "/"]

\* the segments "a" and "b" with 0..MaxSlashes slashes before and after
NamedSegments ==
    {Slashes(k) \o <<n>> \o Slashes(m) : n \in {"a", "b"}, k \in 0..MaxSlashes,
                                         m \in 0..MaxSlashes}

\* the other segments: the empty string, a lone slash, a segment with a slash inside
OtherSegments == {<<>>, <<"/">>, <<"x", "/", "y">>}

UrlSegments == NamedSegments \cup OtherSegments

\* the *parts of a call: none, one or two segments
UrlParts ==
    {<<>>} \cup {<<s>> : s \in UrlSegments} \cup {<<s, t>> : s \in UrlSegments, t \in UrlSegments}

\* base URLs: scheme and host without a path, with the root path, with a path,
\* with a path and a query of its own
UrlBases ==
    {<<"https", ":", "/", "/", "api.test">>,
     <<"http", ":", "/", "/", "localhost", ":", "8080">>,
     <<"https", ":", "/", "/", "api.test", "/">>,
     <<"https", ":", "/", "/", "api.test", "/", "v1">>,
     <<"https", ":", "/", "/", "api.test", "/", "v1", "/", "agent", "/">>,
     <<"https", ":", "/", "/", "api.test", "/", "v1", "?", "old", "=", "1">>}

\* the query= of a call: left out, an empty mapping, one name, two names with
\* a space and a delimiter in a value
UrlQueries ==
    {PyNone,
     PyDict(<<>>, EmptyDict),
     PyDict(<<"k">>, [n \in {"k"} |-> PyStr(<<"v">>)]),
     PyDict(<<"q", "k">>, [n \in {"q", "k"} |->
                              IF n = "q" THEN PyStr(<<"x", " ", "y">>)
                              ELSE PyStr(<<"a", "/", "b">>)])}

InitUrl == NoSession /\ NoObjects

\* url = build_url(base_url, *parts, query=query)
BuildUrl ==
    /\ call.op = "none"
    /\ \E base_url \in UrlBases, parts \in UrlParts, query \in UrlQueries :
          /\ call' = [op |-> "build_url", base_url |-> base_url, parts |-> parts,
                      query |-> query]
          /\ result' = Return(PyStr(build_url(base_url, parts, query)))
    /\ UNCHANGED <<client, agent, sent, mark, born, lastReply, disk, opened, front>>
    /\ UNCHANGED sessionVars

\* url = build_url(url): the URL built is given back as the base, with no
\* parts and no query
Rebuild ==
    /\ call.op \in {"build_url", "rebuild"}
    /\ call' = [op |-> "rebuild", base_url |-> result.value.v, parts |-> <<>>,
                query |-> PyNone]
    /\ result' = Return(PyStr(build_url(result.value.v, <<>>, PyNone)))
    /\ UNCHANGED <<client, agent, sent, mark, born, lastReply, disk, opened, front>>
    /\ UNCHANGED sessionVars

NextUrl ==
    \/ BuildUrl
    \/ Rebuild

SpecUrl == InitUrl /\ [][NextUrl]_vars

----------------------------------------------------------------------------
(* The file uploader, and the chat with files *)

\* requests in one behaviour of the uploader
MaxUploadRequests == 4

\* the pre-signed form the upload API answers with, under the id `id`
UploadForm(id) ==
    PyDict(<<"id", "url", "form">>,
           [k \in {"id", "url", "form"} |->
               CASE k = "id"  -> PyStr(id)
                 [] k = "url" -> PyStr(<<"https", ":", "/", "/", "s3.test", "/", "bucket">>)
                 [] OTHER     -> PyDict(S3FormKeys,
                                        [f \in {S3FormKeys[i] : i \in 1..Len(S3FormKeys)} |->
                                            PyStr("x")])])

\* a form whose fields lack the policy
FormWithoutPolicy ==
    [UploadForm("u3") EXCEPT
        !.v = [k \in {"id", "url", "form"} |->
                  IF k = "form"
                  THEN PyDict(<<"key">>, [f \in {"key"} |-> PyStr("x")])
                  ELSE UploadForm("u3").v[k]]]

\* what the upload API may answer to a request for a form
FormReplies ==
    {Response(200, Json(UploadForm("u1"))),
     Response(200, Json(UploadForm("u2"))),
     Response(200, Json(FormWithoutPolicy)),
     Response(500, NotJson),
     TransportFailure}

\* what S3 may answer to an upload
S3Replies == {Response(204, NotJson), Response(403, NotJson), TransportFailure}

\* the answers to the two requests for one file
FileReplies == {[form |-> f, s3 |-> r] : f \in FormReplies, r \in S3Replies}

\* the file_paths of a call of upload_files
UploadLists ==
    {<<>>, <<"notes.txt">>, <<"notes.txt", "data.bin">>, <<"missing.txt", "notes.txt">>,
     <<"uploads/notes.txt">>}

\* the upload_data of a direct call of upload_to_s3
UploadDatas == {UploadForm("u1"), FormWithoutPolicy, PyList(<<>>)}

InitUpload == NoSession /\ NoObjects

\* uploader = FileUploader(access_token, account_id)
NewUploader ==
    /\ client = PyNone
    /\ \E account_id \in {PyNone, PyStr("acct")} :
          InvokeClient([op |-> "FileUploader", account_id |-> account_id],
                       [self    |-> FileUploader("T1", account_id),
                        sent    |-> <<>>,
                        outcome |-> Return(PyNone)],
                       NoReply)
    /\ UNCHANGED <<agent, born>>
    /\ UNCHANGED sessionVars

\* form = uploader.get_upload_form(file_name)
GetUploadForm ==
    /\ client # PyNone
    /\ Len(sent) + 1 <= MaxUploadRequests
    /\ \E file_name \in {"notes.txt", "missing.txt"}, rep \in FormReplies :
          InvokeClient([op |-> "get_upload_form", file_name |-> file_name],
                       get_upload_form(client, file_name, rep), rep)
    /\ UNCHANGED <<agent, born>>
    /\ UNCHANGED sessionVars

\* uploader.upload_to_s3(upload_data, file_path)
UploadToS3 ==
    /\ client # PyNone
    /\ Len(sent) + 1 <= MaxUploadRequests
    /\ \E upload_data \in UploadDatas, file_path \in {"notes.txt", "missing.txt"},
          rep \in S3Replies :
          InvokeClient([op |-> "upload_to_s3", upload_data |-> upload_data,
                        file_path |-> file_path],
                       upload_to_s3(client, upload_data, file_path, rep, disk), rep)
    /\ UNCHANGED <<agent, born>>
    /\ UNCHANGED sessionVars

\* ids = uploader.upload_files(file_paths); lastReply holds the answers to
\* the requests for each file in turn
UploadFiles ==
    /\ client # PyNone
    /\ \E file_paths \in UploadLists :
          /\ Len(sent) + 2 * Len(file_paths) <= MaxUploadRequests
          /\ \E replies \in [1..Len(file_paths) -> FileReplies] :
                InvokeClient([op |-> "upload_files", file_paths |-> file_paths,
                              replies |-> replies],
                             upload_files(client, file_paths, replies, disk), replies)
    /\ UNCHANGED <<agent, born>>
    /\ UNCHANGED sessionVars

NextUpload ==
    \/ NewUploader
    \/ GetUploadForm
    \/ UploadToS3
    \/ UploadFiles
    \/ ConstructChat
    \/ Ask

SpecUpload == InitUpload /\ [][NextUpload]_vars

----------------------------------------------------------------------------
(* The web front-end: every message is handled by a coroutine of its own on  *)
(* one event loop, all of them on the module's one session.  A coroutine     *)
(* gives way to the others at its awaits only, so a step is the code from    *)
(* one await to the next.  After its last await a handler only returns.      *)

\* messages handled in one behaviour
MaxHandlers == 2

Handlers == 1..MaxHandlers

\* what `await file.get_content()` gives for an uploaded file: bytes, no
\* bytes, None, or an exception
ContentKinds == {"bytes", "empty", "none", "error"}

\* the messages with files: their text and the names of the files
WebUploads ==
    {[content |-> "hello", uploads |-> <<"notes.txt">>],
     [content |-> "hello", uploads |-> <<"data.bin", "notes.txt">>]}

\* the commands a handler knows
WebCommands == {"/limpar", "/contexto", "/ajuda"}

\* what the token endpoint and the chat endpoint may answer to the handler
WebTokenReplies ==
    {Response(200, JsonObject("access_token", PyStr("T1"))),
     Response(401, JsonObject("error", PyStr("invalid_client")))}

WebChatReplies ==
    {Response(200, JsonObject("message", PyStr("Hello!"))),
     Response(200, JsonObject("message", PyNone)),
     Response(500, NotJson)}

\* a handler that has not been given its message yet
IdleHandler == [pc |-> "idle", content |-> "", uploads |-> <<>>, k |-> 0, files |-> <<>>]

InitWeb ==
    /\ NoSession
    /\ client = PyNone
    /\ agent = PyNone
    /\ sent = <<>>
    /\ mark = 0
    /\ born = 0
    /\ call = [op |-> "none"]
    /\ lastReply = NoReply
    /\ result = Return(PyNone)
    /\ disk = ExistingFiles
    /\ opened = <<>>
    /\ front = [kind |-> "web", handlers |-> [h \in Handlers |-> IdleHandler]]

\* the handler h moves on
Handler(h, next) == front' = [front EXCEPT !.handlers[h] = next]

\* the messages added to the session's list by a step, as history entries
\* that name the handler
Added(h, msgs) ==
    [i \in 1..(Len(msgs) - Len(heap.msgs)) |->
        [role    |-> msgs[Len(heap.msgs) + i].role,
         content |-> msgs[Len(heap.msgs) + i].content,
         by      |-> h]]

\* main(message) for a command: /limpar clears the session, the others
\* change nothing; the handler answers and returns
WebCommand ==
    \E h \in Handlers, cmd \in WebCommands :
       /\ front.handlers[h].pc = "idle"
       /\ Handler(h, [IdleHandler EXCEPT !.pc = "done", !.content = cmd])
       /\ IF cmd = "/limpar"
          THEN /\ heap' = clear(heap, session).heap
               /\ calls' = <<>>
               /\ cleared' = TRUE
          ELSE UNCHANGED <<heap, calls, cleared>>
       /\ lastOp' = "on_message"
       /\ call' = [op |-> "command", handler |-> h, content |-> cmd, files |-> <<>>]
       /\ mark' = Len(sent)
       /\ lastReply' = NoReply
       /\ result' = Return(PyNone)
       /\ opened' = <<>>
       /\ UNCHANGED <<session, returned, now, client, agent, sent, born, disk>>

\* main(message) for a message with files, up to the first
\* `await file.get_content()` of process_uploaded_files
WebUpload ==
    \E h \in Handlers, message \in WebUploads :
       /\ front.handlers[h].pc = "idle"
       /\ Handler(h, [IdleHandler EXCEPT !.pc = "saving", !.content = message.content,
                                         !.uploads = message.uploads, !.k = 1])
       /\ lastOp' = "on_message"
       /\ call' = [op |-> "upload", handler |-> h, content |-> message.content,
                   files |-> <<>>]
       /\ mark' = Len(sent)
       /\ lastReply' = NoReply
       /\ result' = Return(PyNone)
       /\ opened' = <<>>
       /\ UNCHANGED <<session, heap, returned, now, calls, cleared>>
       /\ UNCHANGED <<client, agent, sent, born, disk>>

\* the handler h after the step that dealt with its k-th file, `files` being
\* the paths saved so far: the next file, or after the last one the chat (or
\* the end, when no file was saved)
AfterFile(h, files) ==
    Handler(h, [front.handlers[h] EXCEPT
                   !.files = files,
                   !.k = @ + 1,
                   !.pc = IF front.handlers[h].k < Len(front.handlers[h].uploads)
                          THEN "saving"
                          ELSE IF Len(files) = 0 THEN "done" ELSE "chat"])

\* process_uploaded_files from the content of one file to the next await:
\* bytes are written to uploads/<name> and the path is kept; a file without
\* content is passed over
WebSaveFile ==
    \E h \in Handlers, kind \in ContentKinds :
       /\ front.handlers[h].pc = "saving"
       /\ IF kind = "bytes"
          THEN /\ disk' = disk \cup {uploads_path(front.handlers[h].uploads[front.handlers[h].k])}
               /\ AfterFile(h, Append(front.handlers[h].files,
                                      uploads_path(front.handlers[h].uploads[front.handlers[h].k])))
          ELSE /\ disk' = disk
               /\ AfterFile(h, front.handlers[h].files)
       /\ lastOp' = "on_message"
       /\ call' = [op |-> "save", handler |-> h, content |-> front.handlers[h].content,
                   files |-> front'.handlers[h].files]
       /\ mark' = Len(sent)
       /\ lastReply' = NoReply
       /\ result' = Return(PyNone)
       /\ opened' = <<>>
       /\ UNCHANGED <<session, heap, returned, now, calls, cleared>>
       /\ UNCHANGED <<client, agent, sent, born>>

\* the handler h runs from `chat = AgentChat(...)` to its last await, which
\* ended as `res` says
WebChatBlock(h, content, files, res, rep) ==
    /\ Handler(h, [front.handlers[h] EXCEPT !.pc = "done", !.content = content])
    /\ heap' = res.heap
    /\ disk' = res.disk
    /\ sent' = sent \o res.sent
    /\ result' = res.outcome
    /\ opened' = res.opened
    /\ calls' = calls \o Added(h, res.heap.msgs)
    /\ now' = now + Len(res.heap.msgs) - Len(heap.msgs)
    /\ returned' = IF Len(res.heap.msgs) > Len(heap.msgs) THEN "ctx" ELSE returned
    /\ lastOp' = "on_message"
    /\ call' = [op |-> "chat", handler |-> h, content |-> content, files |-> files]
    /\ mark' = Len(sent)
    /\ lastReply' = rep
    /\ UNCHANGED <<session, cleared, client, agent, born>>

\* main(message) for a message without files: nothing is awaited before the
\* answer is sent
WebMessage ==
    \E h \in Handlers, content \in Contents, token_reply \in WebTokenReplies,
       rep \in WebChatReplies :
       /\ front.handlers[h].pc = "idle"
       /\ WebChatBlock(h, content, <<>>,
                       web_chat(heap, session, content, <<>>, token_reply, rep, disk, now),
                       rep)

\* main(message) after the files were saved and listed
WebChat ==
    \E h \in Handlers, token_reply \in WebTokenReplies, rep \in WebChatReplies :
       /\ front.handlers[h].pc = "chat"
       /\ WebChatBlock(h, front.handlers[h].content, front.handlers[h].files,
                       web_chat(heap, session, front.handlers[h].content,
                                front.handlers[h].files, token_reply, rep, disk, now),
                       rep)

NextWeb ==
    \/ WebCommand
    \/ WebUpload
    \/ WebSaveFile
    \/ WebMessage
    \/ WebChat

SpecWeb == InitWeb /\ [][NextWeb]_vars

----------------------------------------------------------------------------
(* The configuration objects and the construction of an agent by keywords *)

\* the keyword arguments of LLMConfig(...): provider and model, and any of
\* the other fields
LLMKwargs ==
    {base @@ t @@ p @@ f @@ q :
        base \in {[provider |-> "openai", model |-> "gpt-4o-mini"],
                  [provider |-> "test_provider", model |-> "test_model"]},
        t \in {EmptyDict, [temperature |-> PyFloat("0.2")], [temperature |-> PyInt(0)]},
        p \in {EmptyDict, [top_p |-> PyFloat("0.5")]},
        f \in {EmptyDict, [frequency_penalty |-> PyFloat("0.0")]},
        q \in {EmptyDict, [presence_penalty |-> PyFloat("0.5")]}}
    \cup {[provider |-> "openai"], [model |-> "gpt-4o-mini", provider |-> "openai", seed |-> PyInt(1)]}

\* the keyword arguments of PromptConfig(...)
PromptKwargs == {[content |-> "test content"], [content |-> ""], EmptyDict}

\* the keyword arguments the tests construct an agent with: a key and no
\* credentials
KeyKwargs ==
    [api_key       |-> "test_key",
     name          |-> <<"test-agent">>,
     description   |-> "Test Description",
     llm_config    |-> LLMConfig("openai", "gpt-4o-mini"),
     prompt_config |-> PromptConfig("Test prompt")]

\* the keyword arguments of StackSpotAgent(...)
AgentKwargs ==
    {KeyKwargs,
     [k \in DOMAIN KeyKwargs \ {"api_key"} |-> KeyKwargs[k]],
     [k \in DOMAIN KeyKwargs \ {"api_key"} |-> KeyKwargs[k]]
         @@ [client_id |-> "id", client_secret |-> "secret", realm |-> PyStr("acme")],
     [k \in DOMAIN KeyKwargs \ {"api_key"} |-> KeyKwargs[k]]
         @@ [client_id |-> "id", client_secret |-> "secret", realm |-> PyStr("acme"),
             endpoint |-> PyStr(<<"custom", "/", "chat">>)]}

InitModels == NoSession /\ NoObjects

\* config = LLMConfig(**kwargs)
NewLLMConfig ==
    /\ \E kwargs \in LLMKwargs :
          Invoke([op |-> "LLMConfig", kwargs |-> kwargs],
                 [sent |-> <<>>, outcome |-> LLMConfig_call(kwargs)], NoReply)
    /\ UNCHANGED <<client, agent, born>>
    /\ UNCHANGED sessionVars

\* config = PromptConfig(**kwargs)
NewPromptConfig ==
    /\ \E kwargs \in PromptKwargs :
          Invoke([op |-> "PromptConfig", kwargs |-> kwargs],
                 [sent |-> <<>>, outcome |-> PromptConfig_call(kwargs)], NoReply)
    /\ UNCHANGED <<client, agent, born>>
    /\ UNCHANGED sessionVars

\* config.to_dict(), of the configuration just made
ToDict ==
    /\ call.op \in {"LLMConfig", "PromptConfig"}
    /\ result.ok
    /\ Invoke([op |-> "to_dict", class |-> call.op, kwargs |-> call.kwargs],
              [sent    |-> <<>>,
               outcome |-> Return(IF call.op = "LLMConfig"
                                  THEN LLMConfig_to_dict(result.value)
                                  ELSE PromptConfig_to_dict(result.value))],
              NoReply)
    /\ UNCHANGED <<client, agent, born>>
    /\ UNCHANGED sessionVars

\* agent = StackSpotAgent(**kwargs)
NewAgent ==
    /\ agent = PyNone
    /\ Len(sent) < MaxCalls
    /\ \E kwargs \in AgentKwargs, rep \in ChatTokenReplies :
          /\ agent' = IF StackSpotAgent_call(kwargs, rep).outcome.ok
                      THEN StackSpotAgent_call(kwargs, rep).outcome.value
                      ELSE PyNone
          /\ Invoke([op |-> "StackSpotAgent", kwargs |-> kwargs],
                    StackSpotAgent_call(kwargs, rep), rep)
    /\ born' = Len(sent)
    /\ UNCHANGED client
    /\ UNCHANGED sessionVars

NextModels ==
    \/ NewLLMConfig
    \/ NewPromptConfig
    \/ ToDict
    \/ NewAgent

SpecModels == InitModels /\ [][NextModels]_vars

----------------------------------------------------------------------------
(* The console front-ends: src/examples/chat_with_existing_agent.py (the     *)
(* program "chat") and src/examples/chat_with_files.py (the program         *)
(* "files").  A step is the code from one input() to the next.               *)

\* the lines a user types at the prompts
ConsoleLines == {"", "  ", "limpar", "Limpar", "contexto", "hi", "upload", "sair"}

\* the lines typed at the prompt for the question about the files
AboutLines == {"", "limpar", "hello"}

\* line.strip(), on the lines above
input_strip(line) == IF line = "  " THEN "" ELSE line

\* text.lower(), on the lines above
input_lower(text) == IF text = "Limpar" THEN "limpar" ELSE text

\* what the token endpoint and the chat endpoint may answer to the console
ConsoleTokenReplies ==
    {Response(200, JsonObject("access_token", PyStr("T1"))),
     Response(401, JsonObject("error", PyStr("invalid_client")))}

ConsoleChatReplies ==
    {Response(200, JsonObject("message", PyStr("Hello!"))),
     Response(200, JsonObject("message", PyNone)),
     Response(200, JsonObject("response", PyStr("Hello!"))),
     Response(500, NotJson),
     TransportFailure}

InitConsole ==
    /\ NoSession
    /\ client = PyNone
    /\ agent = PyNone
    /\ sent = <<>>
    /\ mark = 0
    /\ born = 0
    /\ call = [op |-> "none"]
    /\ lastReply = NoReply
    /\ result = Return(PyNone)
    /\ disk = ExistingFiles
    /\ opened = <<>>
    /\ \E program \in {"chat", "files"} :
          front = [kind |-> "console", program |-> program, pc |-> "start", files |-> <<>>]

\* the program goes to the prompt pc with the files picked so far
Prompt(pc, files) == front' = [front EXCEPT !.pc = pc, !.files = files]

\* a step that reads `line` and asks nothing
NoTurn(line) ==
    /\ call' = [op |-> "input", prompt |-> front.pc, line |-> line, asked |-> FALSE,
                question |-> input_strip(line), before |-> Len(heap.msgs)]
    /\ lastOp' = "input"
    /\ mark' = Len(sent)
    /\ lastReply' = NoReply
    /\ result' = Return(PyNone)
    /\ opened' = <<>>
    /\ UNCHANGED <<session, returned, now, client, agent, sent, born, disk>>

\* main() up to the first input(), the constructor of the chat having ended
\* as `made` says: when it raises, the program ends
ConsoleStarted(made, rep) ==
    /\ agent' = IF made.outcome.ok
                THEN [made.outcome.value EXCEPT !.py = "AgentChat"]
                ELSE PyNone
    /\ Prompt(IF made.outcome.ok THEN "question" ELSE "ended", <<>>)
    /\ sent' = sent \o made.sent
    /\ result' = made.outcome
    /\ call' = [op |-> "start", prompt |-> "start", line |-> "", asked |-> FALSE,
                question |-> "", before |-> 0]
    /\ lastOp' = "start"
    /\ mark' = Len(sent)
    /\ born' = Len(sent)
    /\ lastReply' = rep
    /\ opened' = <<>>
    /\ UNCHANGED <<session, heap, returned, now, calls, cleared, client, disk>>

\* main() up to the first input(): the session and the chat are made
ConsoleStart ==
    /\ front.pc = "start"
    /\ \E rep \in ConsoleTokenReplies :
          ConsoleStarted(AgentChat(<<stackspot_config.agent_id>>,
                                   PyStr(stackspot_config.realm), "id", "secret",
                                   PyStr(stackspot_config.auth_url),
                                   PyStr(stackspot_config.inference_url), PyNone, rep),
                         rep)

\* the words that end the loop
ExitWords == {"sair", "exit", "quit"}

\* the Pergunta prompt reads a line that is a command, or empty
ConsoleCommand ==
    /\ front.pc = "question"
    /\ \E line \in ConsoleLines :
          /\ \/ input_lower(input_strip(line)) \in ExitWords \cup {"limpar", "contexto"}
             \/ input_strip(line) = ""
             \/ front.program = "files" /\ input_lower(input_strip(line)) = "upload"
          /\ NoTurn(line)
          /\ IF input_lower(input_strip(line)) = "limpar" /\ input_strip(line) # ""
             THEN /\ heap' = clear(heap, session).heap
                  /\ calls' = <<>>
                  /\ cleared' = TRUE
             ELSE UNCHANGED <<heap, calls, cleared>>
          /\ Prompt(IF input_lower(input_strip(line)) \in ExitWords THEN "ended"
                    ELSE IF input_lower(input_strip(line)) = "upload" THEN "file"
                    ELSE "question",
                    <<>>)

\* the paths typed at the Arquivo prompt, none of them twice in a round
PathLines == {"", "notes.txt", "missing.txt"}

\* the Arquivo prompt reads a line: an empty one ends the round (back to the
\* Pergunta prompt when no file was picked), a path that does not exist is
\* passed over, another is kept
ConsoleFile ==
    /\ front.pc = "file"
    /\ \E line \in PathLines :
          /\ line \notin paths_of(front.files)
          /\ NoTurn(line)
          /\ UNCHANGED <<heap, calls, cleared>>
          /\ IF input_strip(line) = ""
             THEN Prompt(IF Len(front.files) = 0 THEN "question" ELSE "about", front.files)
             ELSE IF input_strip(line) \notin disk
                  THEN Prompt("file", front.files)
                  ELSE Prompt("file", Append(front.files, input_strip(line)))

\* a turn of the loop, which ended as `res` says, the question being `question`
ConsoleTurn(line, question, files, res, rep) ==
    /\ heap' = res.heap
    /\ sent' = sent \o res.sent
    /\ result' = res.outcome
    /\ opened' = res.opened
    /\ calls' = calls \o Added(0, res.heap.msgs)
    /\ now' = now + Len(res.heap.msgs) - Len(heap.msgs)
    /\ returned' = "ctx"
    /\ lastOp' = "input"
    /\ call' = [op |-> "input", prompt |-> front.pc, line |-> line, asked |-> TRUE,
                question |-> question, before |-> Len(heap.msgs)]
    /\ mark' = Len(sent)
    /\ lastReply' = rep
    /\ Prompt("question", <<>>)
    /\ UNCHANGED <<session, cleared, client, agent, born, disk>>

\* the Pergunta prompt reads a question
ConsoleQuestion ==
    /\ front.pc = "question"
    /\ Len(sent) < MaxRequests
    /\ \E line \in ConsoleLines, rep \in ConsoleChatReplies :
          /\ input_lower(input_strip(line)) \notin ExitWords \cup {"limpar", "contexto"}
          /\ input_strip(line) # ""
          /\ ~(front.program = "files" /\ input_lower(input_strip(line)) = "upload")
          /\ ConsoleTurn(line, input_strip(line), <<>>,
                         console_turn(heap, session, agent, input_strip(line), <<>>,
                                      rep, disk, now),
                         rep)

\* the prompt for the question about the files reads a line, which is the
\* question as it stands
ConsoleAbout ==
    /\ front.pc = "about"
    /\ Len(sent) < MaxRequests
    /\ \E line \in AboutLines, rep \in ConsoleChatReplies :
          ConsoleTurn(line, line, front.files,
                      console_turn(heap, session, agent, line, front.files,
                                   rep, disk, now),
                      rep)

NextConsole ==
    \/ ConsoleStart
    \/ ConsoleCommand
    \/ ConsoleFile
    \/ ConsoleQuestion
    \/ ConsoleAbout

SpecConsole == InitConsole /\ [][NextConsole]_vars

----------------------------------------------------------------------------
(* Properties of the chat session *)

\* the list held by the caller right after get_context()
Context == heap[returned]

\* C1: after N add_message calls with no clear() in between, get_context()
\* returns exactly N entries, the i-th being the {role, content} of the i-th
\* call, in call order and without the timestamp.
C1_ContextIsCallLog ==
    lastOp = "get_context" =>
        /\ Len(Context) = Len(calls)
        /\ \A i \in 1..Len(calls) : Context[i] = calls[i]

C1_Witness ==
    /\ lastOp = "get_context"
    /\ Len(calls) = MaxClock
    /\ calls[1] # calls[2]
    /\ Context = calls

\* C2: clear() leaves the message list empty and conversation_id and metadata
\* as they were, in whatever state it is called; the messages added afterwards
\* are the whole history, under the same conversation_id.
C2_ClearFrame ==
    [][ /\ lastOp' = "clear" =>
              /\ heap'[session'.messages] = <<>>
              /\ get_context(heap', session').heap.ctx = <<>>
              /\ session'.conversation_id = session.conversation_id
              /\ session'.metadata = session.metadata
        /\ (cleared /\ lastOp' = "add_message") =>
              /\ session'.conversation_id = session.conversation_id
              /\ get_context(heap', session').heap.ctx = calls' ]_vars

C2_Witness ==
    /\ cleared
    /\ lastOp = "add_message"
    /\ Len(heap[session.messages]) = 1
    /\ now > 1
    /\ session.metadata # EmptyDict

\* C3: get_context() changes no field of the session and not its messages, two
\* calls in a row return equal lists, and a change the caller makes to the
\* returned list does not reach the session's messages.
C3_GetContextPure ==
    [][ /\ lastOp' = "get_context" =>
              /\ session' = session
              /\ heap'[session.messages] = heap[session.messages]
        /\ (lastOp = "get_context" /\ lastOp' = "get_context") =>
              heap'[returned'] = heap[returned]
        /\ lastOp' = "caller_mutates" =>
              /\ session' = session
              /\ heap'[session.messages] = heap[session.messages] ]_vars

C3_Witness ==
    /\ lastOp = "caller_mutates"
    /\ Len(heap[session.messages]) = 2
    /\ Context # get_context(heap, session).heap.ctx

----------------------------------------------------------------------------
(* Properties of the REST client and of the agent's construction *)

\* the requests the last invocation sent
LastSent == SubSeq(sent, mark + 1, Len(sent))

\* a request to the token endpoint: the client-credentials form
IsTokenRequest(r) ==
    /\ r.body.kind = "form"
    /\ "grant_type" \in DOMAIN r.body.data.v

RestOps == {"get", "post", "put", "delete"}

\* requests raises for this status
ErrorStatus(rep) == rep.received /\ rep.status_code >= 400 /\ rep.status_code < 600

SuccessStatus(rep) == rep.received /\ rep.status_code >= 200 /\ rep.status_code < 300

\* the access_token of a reply, or None when it has none
TokenIn(rep) ==
    IF rep.received /\ rep.body.is_json /\ rep.body.json.py = "dict"
    THEN dict_get(rep.body.json, "access_token")
    ELSE PyNone

\* C4: for one agent object the token endpoint is called exactly once, in the
\* construction and before any REST call; every later operation sends the token
\* that call returned, and no operation asks for a token again or replaces it.
C4_TokenOnce ==
    [][ /\ agent' # PyNone =>
              /\ Len(sent') > born'
              /\ IsTokenRequest(sent'[born' + 1])
              /\ \A i \in (born' + 2)..Len(sent') :
                    /\ ~IsTokenRequest(sent'[i])
                    /\ sent'[i].headers["Authorization"]
                          = "Bearer " \o agent'.access_token.v
        /\ (agent = PyNone /\ agent' # PyNone) =>
              agent'.access_token = TokenIn(lastReply')
        /\ agent # PyNone =>
              /\ agent'.access_token = agent.access_token
              /\ born' = born ]_vars

C4_Witness ==
    /\ agent # PyNone
    /\ agent.access_token = PyStr("T2")
    /\ Len(sent) = born + 3
    /\ sent[born + 2].method = "POST"
    /\ sent[born + 3].method = "DELETE"
    /\ sent[born + 3].headers["Authorization"] = "Bearer T2"

\* C5: with the realm missing or empty the construction fails with the
\* configuration error (the ValueError "Account realm is required for
\* authentication"), no object comes to exist, and no request, to the token
\* endpoint or any other, is sent before the failure.
C5_NoRealmNoRequest ==
    (call.op = "StackSpotAgent" /\ ~truthy(call.realm)) =>
        /\ ~result.ok
        /\ result.error = ValueError("Account realm is required for authentication")
        /\ LastSent = <<>>
        /\ lastReply = NoReply
        /\ agent = PyNone

C5_Witness ==
    /\ call.op = "StackSpotAgent"
    /\ call.realm = PyStr("")
    /\ ~result.ok
    /\ Len(sent) > 0
    /\ LastSent = <<>>

\* a reply from which C6 lets a token be taken: 2xx, with a non-empty one
C6_GoodReply2xx(rep) == SuccessStatus(rep) /\ truthy(TokenIn(rep))

\* C6: get_oauth_token returns the non-empty access_token of a 2xx
\* response, or raises: a non-2xx response, a network failure and a 2xx
\* response without a non-empty access_token all raise; no agent holds an empty
\* or absent token.
C6_TokenOr2xxRaise ==
    /\ (call.op = "StackSpotAgent" /\ truthy(call.realm)) =>
          IF C6_GoodReply2xx(lastReply)
          THEN result.ok /\ agent.access_token = TokenIn(lastReply)
          ELSE ~result.ok /\ agent = PyNone
    /\ agent # PyNone => (agent.access_token.py = "str" /\ agent.access_token.v # "")

\* C7: every request sent by get, post (JSON and multipart), put and delete
\* carries the header Authorization: Bearer {token}, with the token passed to
\* that call.
C7_BearerOnEveryRequest ==
    call.op \in RestOps =>
        /\ LastSent # <<>>
        /\ \A i \in 1..Len(LastSent) :
              /\ "Authorization" \in DOMAIN LastSent[i].headers
              /\ LastSent[i].headers["Authorization"] = "Bearer " \o call.access_token.v

C7_Witness ==
    /\ call.op = "post"
    /\ call.files = OneFile
    /\ call.access_token = PyStr("T2")
    /\ LastSent[1].body.kind = "multipart"
    /\ LastSent[1].headers = ("Authorization" :> "Bearer T2")

\* C8: post chooses the body encoding from files alone: with files the request
\* is multipart, has no Content-Type header set by the client and carries
\* every payload field converted to a string, plus the file parts; without
\* files (None or an empty mapping) it carries the payload as a JSON body with
\* Content-Type: application/json.
C8_PostEncoding ==
    call.op = "post" =>
        /\ Len(LastSent) = 1
        /\ IF call.files # PyNone /\ call.files # EmptyPyDict
           THEN /\ LastSent[1].body.kind = "multipart"
                /\ "Content-Type" \notin DOMAIN LastSent[1].headers
                /\ LastSent[1].body.files = call.files
                /\ LastSent[1].body.data.keys = call.data.keys
                /\ \A k \in DOMAIN call.data.v :
                      /\ LastSent[1].body.data.v[k].py = "str"
                      /\ LastSent[1].body.data.v[k].v = py_str(call.data.v[k])
           ELSE /\ LastSent[1].body = [kind |-> "json", json |-> call.data]
                /\ LastSent[1].headers["Content-Type"] = "application/json"

C8_Witness ==
    /\ call.op = "post"
    /\ call.files = OneFile
    /\ LastSent[1].body.kind = "multipart"
    /\ LastSent[1].body.data.v["user_prompt"] = PyStr("hi")
    /\ LastSent[1].body.data.v["streaming"] = PyStr("True")
    /\ LastSent[1].body.data.v["context"] = PyStr("[{'role': 'user', 'content': 'hi'}]")

\* C9: for get, post, put and delete a non-2xx status or a
\* transport failure makes the call raise an error that carries the status
\* code, and a value is returned only for a 2xx response.
C9_Non2xxRaisesWithStatus ==
    call.op \in RestOps =>
        /\ ~SuccessStatus(lastReply) =>
              /\ ~result.ok
              /\ "status_code" \in DOMAIN result.error
        /\ result.ok => SuccessStatus(lastReply)

\* C10: no retry: one invocation of get_oauth_token, get, post, put or delete
\* sends at most one HTTP request, whether the request succeeds or fails, and a
\* failure (no answer, or a status requests raises for) is never swallowed: the
\* invocation ends in an error, not in a value.
C10_NoRetry ==
    call.op \in RestOps \cup {"get_oauth_token"} =>
        /\ Len(LastSent) <= 1
        /\ (~lastReply.received \/ ErrorStatus(lastReply)) => ~result.ok

C10_Witness ==
    /\ call.op = "post"
    /\ ~lastReply.received
    /\ Len(LastSent) = 1
    /\ result = Raise(ConnectionError)
    /\ mark = 1

----------------------------------------------------------------------------
(* Properties of the client's and the agent's operations *)

\* C11: get, post, put and delete leave the client's base_url, auth_url and
\* realm as they were, whether the call succeeds or fails; the request's URL
\* comes from the base URL the client was constructed with and the endpoint
\* given, and the result from the server's answer alone, whatever was called
\* before.
C11_ClientStateless ==
    [][ call'.op \in RestOps =>
          /\ client' = client
          /\ \E b \in BaseUrls :
                LastSent'[1].url
                    = build_url(py_or(b, PyStr(DefaultBaseUrl)).v, <<call'.endpoint>>, PyNone)
          /\ result' = IF ~lastReply'.received THEN Raise(ConnectionError)
                       ELSE IF ErrorStatus(lastReply')
                       THEN Raise(HTTPError(lastReply'.status_code))
                       ELSE IF ~lastReply'.body.is_json THEN Raise(JSONDecodeError)
                       ELSE Return(lastReply'.body.json) ]_vars

C11_Witness ==
    /\ call.op = "delete"
    /\ mark = 1
    /\ sent[1].method = "GET"
    /\ sent[1].url = sent[2].url
    /\ result = Raise(HTTPError(404))
    /\ client.realm = "acme"

\* the base URL of the agent's client, without the slashes it ends in
C12_Base == rstrip(agent.api_client.base_url, "/")

\* C12: create = POST {base}/agents, list = GET {base}/agents,
\* get = GET {base}/agents/{name}, update = PUT {base}/agents/{name},
\* delete = DELETE {base}/agents/{name}, for every agent name; create and
\* update send the payload {name, description, llm, prompt} built from the
\* agent's fields.
C12_OperationRequests ==
    (agent # PyNone /\ call.op \in {"create", "list", "get", "update", "delete"}) =>
        /\ Len(LastSent) = 1
        /\ LastSent[1].method = CASE call.op = "create" -> "POST"
                                  [] call.op = "list"   -> "GET"
                                  [] call.op = "get"    -> "GET"
                                  [] call.op = "update" -> "PUT"
                                  [] call.op = "delete" -> "DELETE"
        /\ LastSent[1].url = IF call.op \in {"create", "list"}
                             THEN C12_Base \o <<"/", "agents">>
                             ELSE C12_Base \o <<"/", "agents", "/">> \o agent.name
        /\ call.op \in {"create", "update"} =>
              /\ LastSent[1].body.kind = "json"
              /\ LastSent[1].body.json.keys = <<"name", "description", "llm", "prompt">>
              /\ LastSent[1].body.json.v["name"] = PyStr(agent.name)
              /\ LastSent[1].body.json.v["description"] = PyStr(agent.description)
              /\ LastSent[1].body.json.v["llm"].v["provider"] = PyStr(agent.llm.provider)
              /\ LastSent[1].body.json.v["llm"].v["model"] = PyStr(agent.llm.model)
              /\ LastSent[1].body.json.v["prompt"].v["content"] = PyStr(agent.prompt.content)
        /\ call.op \in {"list", "get", "delete"} => LastSent[1].body.kind = "none"

C12_Witness ==
    /\ agent # PyNone
    /\ call.op = "update"
    /\ agent.name = <<"a1">>
    /\ LastSent[1].method = "PUT"
    /\ LastSent[1].url = <<"https", ":", "/", "/", "api.test", "/", "v1", "/", "agents", "/", "a1">>
    /\ Len(sent) = 3

\* the last `n` pieces of the text `s`
Suffix(s, n) == SubSeq(s, Len(s) - n + 1, Len(s))

\* C13: execute posts to the configured endpoint under the base URL when a
\* custom endpoint is configured, and otherwise to agent/{name}/chat, with
\* the agent's own name.
C13_ExecuteEndpoint ==
    (agent # PyNone /\ call.op = "execute") =>
        /\ Len(LastSent) = 1
        /\ LastSent[1].method = "POST"
        /\ IF agent.endpoint # <<"chat">>
           THEN LastSent[1].url = C12_Base \o <<"/">> \o agent.endpoint
           ELSE Suffix(LastSent[1].url, 6)
                    = <<"/", "agent", "/">> \o agent.name \o <<"/", "chat">>

\* the payload execute() hands to the client: the JSON body, or the form
\* fields of a multipart request
C14_Sent == IF LastSent[1].body.kind = "json" THEN LastSent[1].body.json
            ELSE LastSent[1].body.data

\* the context execute() is to send for the argument given
C14_Context == IF call.context = PyNone THEN PyList(<<>>) ELSE call.context

\* C14: execute sends a payload with exactly the keys user_prompt, context,
\* streaming, stackspot_knowledge and return_ks_in_response: user_prompt is the
\* prompt given, the flags are the arguments given, context is the context
\* given, in its order, or an empty list when none is given (as they are in a
\* JSON body, as their text in a multipart form).
C14_ExecutePayload ==
    (agent # PyNone /\ call.op = "execute") =>
        /\ Len(LastSent) = 1
        /\ C14_Sent.keys = <<"user_prompt", "context", "streaming",
                             "stackspot_knowledge", "return_ks_in_response">>
        /\ DOMAIN C14_Sent.v = {"user_prompt", "context", "streaming",
                                "stackspot_knowledge", "return_ks_in_response"}
        /\ IF LastSent[1].body.kind = "json"
           THEN /\ C14_Sent.v["user_prompt"] = PyStr(call.prompt)
                /\ C14_Sent.v["context"] = C14_Context
                /\ C14_Sent.v["streaming"] = PyBool(call.streaming)
                /\ C14_Sent.v["stackspot_knowledge"] = PyBool(call.use_stackspot_knowledge)
                /\ C14_Sent.v["return_ks_in_response"] = PyBool(call.return_ks_in_response)
           ELSE /\ C14_Sent.v["user_prompt"] = PyStr(call.prompt)
                /\ C14_Sent.v["context"] = PyStr(py_str(C14_Context))
                /\ C14_Sent.v["streaming"]
                      = PyStr(IF call.streaming THEN "True" ELSE "False")
                /\ C14_Sent.v["stackspot_knowledge"]
                      = PyStr(IF call.use_stackspot_knowledge THEN "True" ELSE "False")
                /\ C14_Sent.v["return_ks_in_response"]
                      = PyStr(IF call.return_ks_in_response THEN "True" ELSE "False")

C14_Witness ==
    /\ agent # PyNone
    /\ call.op = "execute"
    /\ call.context = TwoContext
    /\ LastSent[1].body.kind = "json"
    /\ LastSent[1].body.json.v["user_prompt"] = PyStr("more")
    /\ LastSent[1].body.json.v["context"].v[1].v["role"] = PyStr("user")
    /\ LastSent[1].body.json.v["context"].v[2].v["role"] = PyStr("assistant")
    /\ LastSent[1].body.json.v["streaming"] = PyBool(FALSE)
    /\ LastSent[1].body.json.v["return_ks_in_response"] = PyBool(TRUE)

\* C15 (as claimed): when execute is called with files, the request is
\* multipart, the files are its parts, and it carries no context field.
C15_NoContextField ==
    (agent # PyNone /\ call.op = "execute" /\ truthy(call.files)) =>
        /\ LastSent[1].body.kind = "multipart"
        /\ LastSent[1].body.files = call.files
        /\ "context" \notin DOMAIN LastSent[1].body.data.v

\* C15 (amended): when execute is called with files, the request is multipart
\* and the files are its parts; the context is not sent as an array but the
\* form still carries a context field, holding the text str() gives for the
\* context ("[]" when none is given).
C15_ContextAsFormField ==
    (agent # PyNone /\ call.op = "execute" /\ truthy(call.files)) =>
        /\ LastSent[1].body.kind = "multipart"
        /\ LastSent[1].body.files = call.files
        /\ "context" \in DOMAIN LastSent[1].body.data.v
        /\ LastSent[1].body.data.v["context"].py = "str"
        /\ LastSent[1].body.data.v["context"].v
              = IF call.context = PyNone THEN "[]" ELSE py_str(call.context)

C15_Witness ==
    /\ agent # PyNone
    /\ call.op = "execute"
    /\ call.files = OneFile
    /\ LastSent[1].body.kind = "multipart"
    /\ LastSent[1].body.data.v["context"]
          = PyStr("[{'role': 'user', 'content': 'hi'}, {'role': 'assistant', 'content': 'hello'}]")

\* the operations of an agent that go to the REST client
AgentOps == {"create", "execute", "list", "get", "update", "delete"}

\* C16: when a chat request succeeds (2xx) but the answer has no answer key
\* (neither "message" nor "response"), ask fails with a ResponseShapeError and
\* never returns an empty string in place of the missing field.
C16_MissingKeyRaises ==
    (/\ call.op = "ask"
     /\ Len(LastSent) = 1
     /\ SuccessStatus(lastReply)
     /\ lastReply.body.is_json
     /\ lastReply.body.json.py = "dict"
     /\ "message" \notin DOMAIN lastReply.body.json.v
     /\ "response" \notin DOMAIN lastReply.body.json.v)
    => /\ ~result.ok
       /\ result.error.type = "ResponseShapeError"

\* the scenario of C17: the token endpoint gave the token (T1 here), the
\* agent's execute("hi") was answered {"response": "Hello!"} with a 2xx status
C17_Scenario ==
    /\ agent # PyNone
    /\ agent.access_token = PyStr("T1")
    /\ call.op = "execute"
    /\ call.prompt = "hi"
    /\ SuccessStatus(lastReply)
    /\ lastReply.body = JsonObject("response", PyStr("Hello!"))

\* C17 (as claimed): end to end, with a token endpoint that returns the token T
\* and a chat endpoint that returns {"response": "Hello!"}, execute("hi")
\* returns "Hello!" and the chat request carries Authorization: Bearer T.
C17_ExecuteReturnsText ==
    C17_Scenario =>
        /\ result = Return(PyStr("Hello!"))
        /\ LastSent[1].headers["Authorization"] = "Bearer T1"

\* C17 (amended): in that scenario execute("hi") returns the parsed response,
\* the object {"response": "Hello!"}, and the chat request, the one request
\* of the call, carries Authorization: Bearer T; the token came from the one
\* token request of the construction.
C17_EndToEndParsed ==
    C17_Scenario =>
        /\ result = Return(PyDict(<<"response">>, [response |-> PyStr("Hello!")]))
        /\ Len(LastSent) = 1
        /\ LastSent[1].method = "POST"
        /\ LastSent[1].headers["Authorization"] = "Bearer T1"
        /\ IsTokenRequest(sent[born + 1])

C17_Witness ==
    /\ C17_Scenario
    /\ Len(sent) = born + 2
    /\ result.ok
    /\ result.value.v["response"] = PyStr("Hello!")
    /\ LastSent[1].body.json.v["user_prompt"] = PyStr("hi")

\* C18: a failure of the REST client inside create, execute, list, get,
\* update, delete or ask (no answer, a 4xx or 5xx status, a body that is not
\* JSON) ends the call in that same error, with the same status, and the call
\* sends nothing after it; it never ends in a value.
C18_ClientErrorsPropagate ==
    (call.op \in AgentOps \cup {"ask"} /\ Len(LastSent) > 0) =>
        /\ Len(LastSent) = 1
        /\ ~lastReply.received => result = Raise(ConnectionError)
        /\ ErrorStatus(lastReply) => result = Raise(HTTPError(lastReply.status_code))
        /\ (lastReply.received /\ ~ErrorStatus(lastReply) /\ ~lastReply.body.is_json) =>
              result = Raise(JSONDecodeError)

C18_Witness ==
    /\ call.op = "ask"
    /\ Len(LastSent) = 1
    /\ LastSent[1].body.kind = "multipart"
    /\ lastReply = Response(404, JsonObject("error", PyStr("not found")))
    /\ result = Raise(HTTPError(404))

\* C19: no operation of the agent changes the agent object (name, description,
\* llm, prompt, endpoint, access_token, client), whether it succeeds or fails,
\* and every call is issued whatever was called before: it sends its one
\* request, to a URL under the client's base URL and with the agent's token,
\* without an earlier create and also after a delete.
C19_AgentStateless ==
    [][ /\ agent # PyNone => agent' = agent
        /\ (agent # PyNone /\ call'.op \in AgentOps) =>
              /\ Len(sent') = Len(sent) + 1
              /\ LastSent'[1].headers["Authorization"]
                    = "Bearer " \o agent.access_token.v
              /\ SubSeq(LastSent'[1].url, 1, Len(C12_Base)) = C12_Base ]_vars

C19_Witness ==
    /\ agent # PyNone
    /\ Len(sent) = born + 3
    /\ sent[born + 2].method = "DELETE"
    /\ call.op = "update"
    /\ result.ok

----------------------------------------------------------------------------
(* Properties of the URL builder *)

\* the pieces of a text that are not slashes
NonSlash(s) == SelectSeq(s, LAMBDA piece : piece # "/")

\* C20: for a base URL B without a path, build_url(B, "a", "b") is B + "/a/b";
\* and for two segments that carry any number of slashes at their ends, the
\* URL built ends in "/" + first + "/" + second, the segments without their
\* slashes: exactly one "/" in front of each.
C20_SingleSlashJoin ==
    call.op = "build_url" =>
        /\ (/\ call.base_url \in {<<"https", ":", "/", "/", "api.test">>,
                                  <<"http", ":", "/", "/", "localhost", ":", "8080">>}
            /\ ~truthy(call.query)
            /\ call.parts = << <<"a">>, <<"b">> >>)
           => result.value.v = call.base_url \o <<"/", "a", "/", "b">>
        /\ (/\ Len(call.parts) = 2
            /\ ~truthy(call.query)
            /\ call.parts[1] \in NamedSegments
            /\ call.parts[2] \in NamedSegments)
           => /\ Suffix(result.value.v, 4)
                    = <<"/">> \o NonSlash(call.parts[1]) \o <<"/">> \o NonSlash(call.parts[2])
              /\ result.value.v[Len(result.value.v) - 4] # "/"

C20_Witness ==
    /\ call.op = "build_url"
    /\ call.base_url = <<"https", ":", "/", "/", "api.test">>
    /\ call.parts = << <<"/", "/", "a", "/">>, <<"/", "b", "/", "/">> >>
    /\ call.query = PyNone
    /\ result.value.v = <<"https", ":", "/", "/", "api.test", "/", "a", "/", "b">>


\* C21: build_url is idempotent: when a URL that build_url produced (from any
\* base, segments and query mapping) is given back to build_url with no
\* segments and no query, the URL returned is that same URL.
C21_Idempotent ==
    call.op = "rebuild" => result.value.v = call.base_url

\* the text has two slashes in a row
HasDoubleSlash(s) == \E i \in 1..(Len(s) - 1) : s[i] = "/" /\ s[i + 1] = "/"

\* C22: the path of the URL that build_url returns holds the base URL's path
\* first and then the segments in the order given, with the empty segments
\* dropped (its pieces other than "/" are those of the base path followed by
\* those of each segment in turn), and it never contains "//", whatever the
\* segments are, a segment with slashes inside or a lone slash included.
C22_SegmentsInOrderNoDoubleSlash ==
    call.op = "build_url" =>
        LET path == parse_url(result.value.v).path IN
        /\ NonSlash(path)
              = NonSlash(parse_url(call.base_url).path) \o NonSlash(join(call.parts, <<>>))
        /\ path[1] = "/"
        /\ ~HasDoubleSlash(path)

----------------------------------------------------------------------------
(* Properties of the file uploader and of the front-ends *)

\* C23: when upload_to_s3 or AgentChat.ask has returned or raised, every
\* file object that the call opened is closed.
C23_HandlesClosed ==
    call.op \in {"upload_to_s3", "ask"} =>
        \A i \in 1..Len(opened) : opened[i].closed

\* getting the form for the i-th file of the last upload_files call fails
C25_FormFails(i) == ~receive(call.replies[i].form).ok

\* the form for the i-th file was got and uploading the file fails
C25_UploadFails(i) ==
    /\ ~C25_FormFails(i)
    /\ ~upload_to_s3(client, call.replies[i].form.body.json, call.file_paths[i],
                     call.replies[i].s3, disk).outcome.ok

\* the requests of the last invocation
C25_Requests == SubSeq(sent, mark + 1, Len(sent))

\* C25: in upload_files, when getting the form or uploading fails for the
\* i-th file, the call raises (so no list of ids is returned) and no request
\* is made for any later file: at most two requests per file up to the i-th
\* went out and none asks for a form for a later file.  When nothing fails,
\* the call returns the ids of the forms, one per file, in the order of the
\* files, after two requests per file.
C25_BatchStopsAtFirstFailure ==
    call.op = "upload_files" =>
        /\ \A i \in 1..Len(call.file_paths) :
              (C25_FormFails(i) \/ C25_UploadFails(i)) =>
                 /\ ~result.ok
                 /\ Len(C25_Requests) <= 2 * i
                 /\ \A r \in 1..Len(C25_Requests), j \in (i + 1)..Len(call.file_paths) :
                       C25_Requests[r].url = client.upload_api
                          => C25_Requests[r].body.json.v["file_name"].v
                                # path_name(call.file_paths[j])
        /\ (\A i \in 1..Len(call.file_paths) : ~C25_FormFails(i) /\ ~C25_UploadFails(i)) =>
              /\ result = Return(PyList([i \in 1..Len(call.file_paths) |->
                                            call.replies[i].form.body.json.v["id"]]))
              /\ Len(C25_Requests) = 2 * Len(call.file_paths)

\* a call with two files in which the upload of the first fails while the
\* answers for the second would have let it through
C25_Witness ==
    /\ call.op = "upload_files"
    /\ call.file_paths = <<"notes.txt", "data.bin">>
    /\ call.replies[1] = [form |-> Response(200, Json(UploadForm("u1"))),
                          s3   |-> Response(403, NotJson)]
    /\ call.replies[2] = [form |-> Response(200, Json(UploadForm("u2"))),
                          s3   |-> Response(204, NotJson)]
    /\ result = Raise(HTTPError(403))
    /\ Len(C25_Requests) = 2

\* C24: when a handler of the web front-end has run its chat request to the
\* end, whether the request succeeded or failed, none of the temporary files
\* it wrote for its message exists.
C24_TempFilesDeleted ==
    call.op = "chat" => \A path \in paths_of(call.files) : path \notin disk

----------------------------------------------------------------------------
(* Properties of the configuration objects *)

\* C26: to_dict() of an LLMConfig is a mapping with exactly the six declared
\* fields, provider and model as given and each other field with the value
\* given or, when it was not set, its declared default (temperature 0.7,
\* top_p 1.0, frequency_penalty 0.1, presence_penalty 0.0); to_dict() of a
\* PromptConfig is the mapping {content: the content given}.
C26_ToDictDeclaredFields ==
    call.op = "to_dict" =>
        IF call.class = "LLMConfig"
        THEN /\ result.value.py = "dict"
             /\ DOMAIN result.value.v
                   = {"provider", "model", "temperature", "top_p", "frequency_penalty",
                      "presence_penalty"}
             /\ Len(result.value.keys) = 6
             /\ {result.value.keys[i] : i \in 1..6} = DOMAIN result.value.v
             /\ result.value.v["provider"] = PyStr(call.kwargs.provider)
             /\ result.value.v["model"] = PyStr(call.kwargs.model)
             /\ \A f \in {"temperature", "top_p", "frequency_penalty", "presence_penalty"} :
                   result.value.v[f]
                      = IF f \in DOMAIN call.kwargs THEN call.kwargs[f]
                        ELSE CASE f = "temperature"       -> PyFloat("0.7")
                               [] f = "top_p"             -> PyFloat("1.0")
                               [] f = "frequency_penalty" -> PyFloat("0.1")
                               [] f = "presence_penalty"  -> PyFloat("0.0")
        ELSE /\ result.value.py = "dict"
             /\ result.value.keys = <<"content">>
             /\ DOMAIN result.value.v = {"content"}
             /\ result.value.v["content"] = PyStr(call.kwargs.content)

\* to_dict() of a configuration made from a provider, a model and a
\* temperature: the temperature is the one given, the rest are the defaults
C26_Witness ==
    /\ call.op = "to_dict"
    /\ call.class = "LLMConfig"
    /\ DOMAIN call.kwargs = {"provider", "model", "temperature"}
    /\ call.kwargs.temperature = PyFloat("0.2")
    /\ result.value.v["temperature"] = PyFloat("0.2")
    /\ result.value.v["top_p"] = PyFloat("1.0")
    /\ result.value.v["frequency_penalty"] = PyFloat("0.1")
    /\ result.value.v["presence_penalty"] = PyFloat("0.0")

\* C27: to_dict() of an LLMConfig built from a provider and a model alone is
\* the mapping with exactly the two keys provider and model, holding the
\* values given.
C27_ToDictTwoKeys ==
    (/\ call.op = "to_dict"
     /\ call.class = "LLMConfig"
     /\ DOMAIN call.kwargs = {"provider", "model"})
    => /\ DOMAIN result.value.v = {"provider", "model"}
       /\ result.value.v["provider"] = PyStr(call.kwargs.provider)
       /\ result.value.v["model"] = PyStr(call.kwargs.model)

\* C28: constructing a StackSpotAgent from a key, a name, a description, an
\* LLM configuration and a prompt configuration, without realm, client id or
\* client secret, succeeds, and the agent holds the name, the description
\* and the two configurations given.
C28_ConstructionFromKey ==
    (/\ call.op = "StackSpotAgent"
     /\ DOMAIN call.kwargs = {"api_key", "name", "description", "llm_config", "prompt_config"})
    => /\ result.ok
       /\ result.value.name = call.kwargs.name
       /\ result.value.description = call.kwargs.description
       /\ result.value.llm = call.kwargs.llm_config
       /\ result.value.prompt = call.kwargs.prompt_config

----------------------------------------------------------------------------
(* Properties of the console chat loop *)

\* the messages the last step appended to the session
C29_Appended == Len(heap.msgs) - call.before

\* the context the last request of the step carried
C29_SentContext ==
    IF sent[Len(sent)].body.kind = "json"
    THEN sent[Len(sent)].body.json.v["context"]
    ELSE sent[Len(sent)].body.data.v["context"]

\* the session before the step, followed by the question, as ask() sends it
C29_Context ==
    IF sent[Len(sent)].body.kind = "json"
    THEN py_context([i \in 1..(call.before + 1) |-> heap.msgs[i]])
    ELSE PyStr(py_str(py_context([i \in 1..(call.before + 1) |-> heap.msgs[i]])))

\* a turn: the question is appended and stays, the request carries the
\* session with the question at its end (so also the questions left
\* unanswered before), and the answer is appended when ask() returned
C29_Turns ==
    call.op = "input" /\ call.asked =>
        /\ C29_Appended = IF result.ok THEN 2 ELSE 1
        /\ heap.msgs[call.before + 1].role = "user"
        /\ heap.msgs[call.before + 1].content = call.question
        /\ Len(sent) > mark
        /\ C29_SentContext = C29_Context
        /\ result.ok =>
              /\ heap.msgs[call.before + 2].role = "assistant"
              /\ heap.msgs[call.before + 2].content = content_of(result.value)

\* the lines that the claim says are never questions
C29_Commands == {"limpar", "contexto", ""}

\* C29 as stated: in the console chat loops a successful turn appends the
\* user question and then the assistant answer, a turn whose ask fails
\* appends the user question only, which the next request's context then
\* contains, and the inputs 'limpar', 'contexto' and the empty line send no
\* request and append nothing
C29_TurnsAndCommands ==
    /\ C29_Turns
    /\ call.op = "input" /\ call.line \in C29_Commands =>
          /\ Len(sent) = mark
          /\ Len(heap.msgs) <= call.before

\* C29, amended: the same, except that at the prompt of chat_with_files.py
\* for the question about the picked files the inputs 'limpar', 'contexto'
\* and the empty line are questions like any other
C29_TurnsAndCommandsAtPergunta ==
    /\ C29_Turns
    /\ call.op = "input" /\ call.line \in C29_Commands /\ call.prompt # "about" =>
          /\ Len(sent) = mark
          /\ Len(heap.msgs) <= call.before

\* a turn has succeeded right after one that failed: the session ends with
\* the unanswered question, the question, the answer
C29_Witness ==
    /\ call.op = "input" /\ call.asked /\ result.ok
    /\ call.before >= 1
    /\ heap.msgs[call.before].role = "user"
    /\ Len(heap.msgs) = call.before + 2
    /\ Len(C29_SentContext.v) = call.before + 1

----------------------------------------------------------------------------
(* Properties of the web front-end's shared session *)

\* C30: the handlers of the web front-end append to one session, and in
\* every interleaving of them each assistant message in that session comes
\* right after the user message it answers: the one before it is a user
\* message, was appended by the same handler and holds that handler's
\* message content
C30_AnswerFollowsItsQuestion ==
    /\ Len(calls) = Len(heap.msgs)
    /\ \A i \in 1..Len(heap.msgs) :
          heap.msgs[i].role = "assistant" =>
              /\ i > 1
              /\ heap.msgs[i - 1].role = "user"
              /\ calls[i - 1].by = calls[i].by
              /\ heap.msgs[i - 1].content = front.handlers[calls[i].by].content

\* a handler has appended its question and its answer to the session while
\* another handler, begun earlier, was between two of its awaits
C30_Witness ==
    /\ call.op = "chat"
    /\ result.ok
    /\ Len(heap.msgs) >= 2
    /\ heap.msgs[Len(heap.msgs)].role = "assistant"
    /\ calls[Len(heap.msgs)].by = call.handler
    /\ \E g \in Handlers \ {call.handler} : front.handlers[g].pc \in {"saving", "chat"}
=============================================================================
